---- MODULE Spec2Model ----
(***************************************************************************)
(* A model of the web terminal emulator of render_deploy.py: the           *)
(* TerminalEmulator class (path confinement, built-in commands, bounded    *)
(* history) and the socket handlers that drive the one shared instance.    *)
(*                                                                         *)
(* Python strings are TLA+ strings; the os.path functions, str methods and *)
(* the file-system calls are operators that compute what the library       *)
(* computes.  The file system is a function from canonical absolute paths  *)
(* to nodes; time stamps, owners and permissions are not part of it.       *)
(***************************************************************************)
EXTENDS Integers, Sequences, FiniteSets, TLC

VARIABLES
    fs,                 \* the file system: canonical path |-> node
    current_directory,  \* TerminalEmulator.current_directory
    command_history,    \* TerminalEmulator.command_history
    result,             \* the CommandResult of the last execute_command
    completions,        \* the list the last get_completions returned
    last,               \* the last request handled: who sent it, what it was
    threads,            \* where every handler thread stands inside execute_command
    history_result      \* the list the last history_result event carried

vars == <<fs, current_directory, command_history, result, completions, last,
          threads, history_result>>

\* a local variable: `name = value` followed by the statements of Body
Bind(value, Body(_)) == Body(value)

-----------------------------------------------------------------------------
(* str methods *)

Char(s, i) == SubSeq(s, i, i)

Slice(s, i) == SubSeq(s, i, Len(s))

StartsWith(s, p) == Len(p) <= Len(s) /\ SubSeq(s, 1, Len(p)) = p

EndsWith(s, p) == Len(p) <= Len(s) /\ SubSeq(s, Len(s) - Len(p) + 1, Len(s)) = p

\* str.find for a one-character needle, from index i; 0 when absent
RECURSIVE Find(_, _, _)
Find(s, c, i) ==
    IF i > Len(s) THEN 0
    ELSE IF Char(s, i) = c THEN i ELSE Find(s, c, i + 1)

\* str.rfind for a one-character needle, from index i downwards; 0 when absent
RECURSIVE RFind(_, _, _)
RFind(s, c, i) ==
    IF i < 1 THEN 0
    ELSE IF Char(s, i) = c THEN i ELSE RFind(s, c, i - 1)

\* str.split(sep) for a one-character separator
RECURSIVE Split(_, _)
Split(s, sep) ==
    Bind(Find(s, sep, 1), LAMBDA i :
        IF i = 0 THEN <<s>>
        ELSE <<SubSeq(s, 1, i - 1)>> \o Split(Slice(s, i + 1), sep))

\* sep.join(seq)
RECURSIVE Join(_, _)
Join(seq, sep) ==
    IF Len(seq) = 0 THEN ""
    ELSE IF Len(seq) = 1 THEN seq[1]
    ELSE seq[1] \o sep \o Join(Tail(seq), sep)

IsSpace(c) == c \in {" ", "\t", "\n", "\r"}

RECURSIVE LStrip(_)
LStrip(s) ==
    IF Len(s) > 0 /\ IsSpace(Char(s, 1)) THEN LStrip(Slice(s, 2)) ELSE s

RECURSIVE RStrip(_)
RStrip(s) ==
    IF Len(s) > 0 /\ IsSpace(Char(s, Len(s))) THEN RStrip(SubSeq(s, 1, Len(s) - 1)) ELSE s

Strip(s) == RStrip(LStrip(s))

\* index of the first white-space character of s, 0 when there is none
RECURSIVE FindSpace(_, _)
FindSpace(s, i) ==
    IF i > Len(s) THEN 0
    ELSE IF IsSpace(Char(s, i)) THEN i ELSE FindSpace(s, i + 1)

\* str.split() with no argument: the maximal runs of non-white-space
RECURSIVE SplitWs(_)
SplitWs(s) ==
    Bind(LStrip(s), LAMBDA t :
    Bind(FindSpace(t, 1), LAMBDA i :
        IF t = "" THEN <<>>
        ELSE IF i = 0 THEN <<t>>
        ELSE <<SubSeq(t, 1, i - 1)>> \o SplitWs(Slice(t, i + 1))))

UpperCase == "ABCDEFGHIJKLMNOPQRSTUVWXYZ"
LowerCase == "abcdefghijklmnopqrstuvwxyz"

LowerChar(c) ==
    Bind(Find(UpperCase, c, 1), LAMBDA i :
        IF i = 0 THEN c ELSE Char(LowerCase, i))

\* str.lower
RECURSIVE Lower(_)
Lower(s) ==
    IF s = "" THEN "" ELSE LowerChar(Char(s, 1)) \o Lower(Slice(s, 2))

\* s.rstrip('/')
RECURSIVE RStripSlash(_)
RStripSlash(s) ==
    IF Len(s) > 0 /\ Char(s, Len(s)) = "/" THEN RStripSlash(SubSeq(s, 1, Len(s) - 1)) ELSE s

\* the printable ASCII characters in code order, from the space on (the
\* grave accent, which no string of the model holds, is left out)
Ascii == " !\"#$%&'()*+,-./0123456789:;<=>?@ABCDEFGHIJKLMNOPQRSTUVWXYZ[\\]^_abcdefghijklmnopqrstuvwxyz{|}~"

\* the rank of a character in that order, 0 for one it does not hold
Ord(c) ==
    IF \E i \in 1..Len(Ascii) : Char(Ascii, i) = c
    THEN CHOOSE i \in 1..Len(Ascii) : Char(Ascii, i) = c
    ELSE 0

\* a < b as Python compares str
StrLess(a, b) ==
    Bind(IF Len(a) < Len(b) THEN Len(a) ELSE Len(b), LAMBDA shorter :
    \* the length of the common prefix
    Bind(Cardinality({i \in 1..shorter : \A j \in 1..i : Char(a, j) = Char(b, j)}), LAMBDA k :
        IF k = Len(b) THEN FALSE
        ELSE IF k = Len(a) THEN TRUE
        ELSE Ord(Char(a, k + 1)) < Ord(Char(b, k + 1))))

\* sorted() of a set of distinct strings
RECURSIVE Sorted(_)
Sorted(S) ==
    IF S = {} THEN <<>>
    ELSE Bind(CHOOSE x \in S : \A y \in S : ~StrLess(y, x), LAMBDA m :
             <<m>> \o Sorted(S \ {m}))

-----------------------------------------------------------------------------
(* os.path (posixpath) *)

isabs(path) == StartsWith(path, "/")

\* os.path.join(a, b)
join(a, b) ==
    IF StartsWith(b, "/") THEN b
    ELSE IF a = "" \/ EndsWith(a, "/") THEN a \o b
    ELSE a \o "/" \o b

\* os.path.basename
basename(path) == Slice(path, RFind(path, "/", Len(path)) + 1)

\* os.path.split: <<head, tail>>
pathsplit(path) ==
    Bind(RFind(path, "/", Len(path)), LAMBDA i :
    Bind(SubSeq(path, 1, i), LAMBDA head :
    Bind(Slice(path, i + 1), LAMBDA tail :
        <<IF RStripSlash(head) = "" THEN head ELSE RStripSlash(head), tail>>)))

\* the component loop of os.path.normpath
RECURSIVE NormComps(_, _, _)
NormComps(comps, new_comps, initial_slashes) ==
    IF Len(comps) = 0 THEN new_comps
    ELSE Bind(Head(comps), LAMBDA comp :
         Bind(Len(new_comps), LAMBDA n :
             IF comp \in {"", "."}
             THEN NormComps(Tail(comps), new_comps, initial_slashes)
             ELSE IF \/ comp # ".."
                     \/ (initial_slashes = 0 /\ n = 0)
                     \/ (n > 0 /\ new_comps[n] = "..")
             THEN NormComps(Tail(comps), Append(new_comps, comp), initial_slashes)
             ELSE IF n > 0
             THEN NormComps(Tail(comps), SubSeq(new_comps, 1, n - 1), initial_slashes)
             ELSE NormComps(Tail(comps), new_comps, initial_slashes)))

\* os.path.normpath
normpath(path) ==
    IF path = "" THEN "."
    ELSE LET initial_slashes ==
                 IF ~StartsWith(path, "/") THEN 0
                 ELSE IF StartsWith(path, "//") /\ ~StartsWith(path, "///") THEN 2
                 ELSE 1
             comps == NormComps(Split(path, "/"), <<>>, initial_slashes)
             p == SubSeq("//", 1, initial_slashes) \o Join(comps, "/")
         IN  IF p = "" THEN "." ELSE p

-----------------------------------------------------------------------------
(* TerminalEmulator *)

base_directory == "/tmp/terminal_workspace"

_safe_path(cwd, path) ==
    IF path = "" THEN cwd
    ELSE IF isabs(path)
    THEN Bind(normpath(path), LAMBDA abs_path :
             IF ~StartsWith(abs_path, base_directory)
             THEN join(base_directory, basename(path))
             ELSE abs_path)
    ELSE Bind(normpath(join(cwd, path)), LAMBDA abs_path :
             IF ~StartsWith(abs_path, base_directory)
             THEN base_directory
             ELSE abs_path)

-----------------------------------------------------------------------------
(* The file system the os, shutil and pathlib calls act on.  A node is a   *)
(* directory or a regular file with its content; "/" is always a directory.*)

DirNode == [type |-> "dir", data |-> ""]

FileNode(data) == [type |-> "file", data |-> data]

Range(seq) == {seq[i] : i \in DOMAIN seq}

\* canonical path of the entry `name` of the directory `dir`
Child(dir, name) == IF dir = "/" THEN "/" \o name ELSE dir \o "/" \o name

\* canonical path of the directory holding `canon` ("/" holds itself)
ParentOf(canon) ==
    Bind(RFind(canon, "/", Len(canon)), LAMBDA i :
        IF i <= 1 THEN "/" ELSE SubSeq(canon, 1, i - 1))

\* canon is anc or lies beneath it, by path components
Beneath(canon, anc) ==
    \/ canon = anc
    \/ anc = "/"
    \/ StartsWith(canon, anc \o "/")

\* the kernel's path walk from `cur` over the components `comps`
RECURSIVE Walk(_, _, _)
Walk(f, cur, comps) ==
    IF Len(comps) = 0 THEN [err |-> "", path |-> cur]
    ELSE IF f[cur].type # "dir" THEN [err |-> "ENOTDIR", path |-> ""]
    ELSE Bind(Head(comps), LAMBDA c :
             IF c \in {"", "."} THEN Walk(f, cur, Tail(comps))
             ELSE IF c = ".." THEN Walk(f, ParentOf(cur), Tail(comps))
             ELSE IF Child(cur, c) \notin DOMAIN f THEN [err |-> "ENOENT", path |-> ""]
             ELSE Walk(f, Child(cur, c), Tail(comps)))

\* resolution of an absolute path string to the entry it names
namei(f, path) == Walk(f, "/", Split(path, "/"))

exists(f, path) == namei(f, path).err = ""

isdir(f, path) ==
    LET r == namei(f, path) IN r.err = "" /\ f[r.path].type = "dir"

isfile(f, path) ==
    LET r == namei(f, path) IN r.err = "" /\ f[r.path].type = "file"

\* os.listdir as a set of names (the order is the file system's)
listdir(f, canon) ==
    {basename(q) : q \in {q \in DOMAIN f : q # "/" /\ ParentOf(q) = canon}}

\* the entries strictly beneath a directory
Descendants(f, canon) == {q \in DOMAIN f : q # canon /\ Beneath(q, canon)}

Without(f, gone) == [q \in DOMAIN f \ gone |-> f[q]]

With(f, canon, node) == [q \in DOMAIN f \cup {canon} |-> IF q = canon THEN node ELSE f[q]]

\* the exception class Python raises for an errno
ErrClass(code) ==
    CASE code = "ENOENT" -> "FileNotFoundError"
      [] code = "ENOTDIR" -> "NotADirectoryError"
      [] code = "EEXIST" -> "FileExistsError"
      [] code = "EISDIR" -> "IsADirectoryError"
      [] OTHER -> "OSError"

\* str(e) of an OSError raised for `path`
ErrText(code, path) ==
    (CASE code = "ENOENT" -> "[Errno 2] No such file or directory"
       [] code = "ENOTDIR" -> "[Errno 20] Not a directory"
       [] code = "EEXIST" -> "[Errno 17] File exists"
       [] code = "EISDIR" -> "[Errno 21] Is a directory"
       [] code = "ENOTEMPTY" -> "[Errno 39] Directory not empty"
       [] code = "EINVAL" -> "[Errno 22] Invalid argument"
       [] OTHER -> code) \o ": '" \o path \o "'"

\* the outcome of a file-system call: the new file system, and the
\* exception it raised ("" for none) with its text
Done(f) == [fs |-> f, exc |-> "", msg |-> ""]

Raise(f, code, path) == [fs |-> f, exc |-> ErrClass(code), msg |-> ErrText(code, path)]

\* the parent directory a creating or removing call works in:
\* [err, dir, name], name being the last component of the path
ParentDir(f, path) ==
    Bind(pathsplit(RStripSlash(path)), LAMBDA sp :
    Bind(namei(f, sp[1]), LAMBDA par :
        IF par.err # "" THEN [err |-> par.err, dir |-> "", name |-> sp[2]]
        ELSE IF f[par.path].type # "dir" THEN [err |-> "ENOTDIR", dir |-> "", name |-> sp[2]]
        ELSE [err |-> "", dir |-> par.path, name |-> sp[2]]))

os_mkdir(f, path) ==
    Bind(ParentDir(f, path), LAMBDA p :
        IF p.err # "" THEN Raise(f, p.err, path)
        ELSE IF p.name \in {"", ".", ".."} \/ Child(p.dir, p.name) \in DOMAIN f
        THEN Raise(f, "EEXIST", path)
        ELSE Done(With(f, Child(p.dir, p.name), DirNode)))

\* os.makedirs(name, exist_ok=exist_ok)
RECURSIVE os_makedirs(_, _, _)
os_makedirs(f, name, exist_ok) ==
    Bind(pathsplit(name), LAMBDA sp0 :
    Bind(IF sp0[2] = "" THEN pathsplit(sp0[1]) ELSE sp0, LAMBDA sp :
    Bind(sp[1], LAMBDA head :
    Bind(sp[2], LAMBDA tail :
    Bind(head # "" /\ tail # "" /\ ~exists(f, head), LAMBDA above :
    Bind(IF above THEN os_makedirs(f, head, exist_ok) ELSE Done(f), LAMBDA up :
        IF up.exc \notin {"", "FileExistsError"} THEN up
        ELSE IF above /\ tail = "." THEN Done(up.fs)
        ELSE Bind(os_mkdir(up.fs, name), LAMBDA made :
                 IF made.exc # "" /\ exist_ok /\ isdir(up.fs, name) THEN Done(up.fs) ELSE made)))))))

\* os.rmdir that takes what the directory holds with it
os_rmdir_NonEmpty(f, path) ==
    Bind(ParentDir(f, path), LAMBDA p :
    Bind(Child(p.dir, p.name), LAMBDA canon :
        IF p.err # "" THEN Raise(f, p.err, path)
        ELSE IF p.name = ".." THEN Raise(f, "ENOTEMPTY", path)
        ELSE IF p.name = "." THEN Raise(f, "EINVAL", path)
        ELSE IF canon \notin DOMAIN f THEN Raise(f, "ENOENT", path)
        ELSE IF f[canon].type # "dir" THEN Raise(f, "ENOTDIR", path)
        ELSE Done(Without(f, {canon} \cup Descendants(f, canon)))))

os_rmdir(f, path) ==
    Bind(ParentDir(f, path), LAMBDA p :
    Bind(Child(p.dir, p.name), LAMBDA canon :
        IF p.err # "" THEN Raise(f, p.err, path)
        ELSE IF p.name = ".." THEN Raise(f, "ENOTEMPTY", path)
        ELSE IF p.name = "." THEN Raise(f, "EINVAL", path)
        ELSE IF canon \notin DOMAIN f THEN Raise(f, "ENOENT", path)
        ELSE IF f[canon].type # "dir" THEN Raise(f, "ENOTDIR", path)
        ELSE IF Descendants(f, canon) # {} THEN Raise(f, "ENOTEMPTY", path)
        ELSE Done(Without(f, {canon}))))

os_remove(f, path) ==
    Bind(namei(f, path), LAMBDA r :
        IF r.err # "" THEN Raise(f, r.err, path)
        ELSE IF f[r.path].type = "dir" THEN Raise(f, "EISDIR", path)
        ELSE Done(Without(f, {r.path})))

\* shutil.rmtree of a directory: everything beneath it goes, then os.rmdir(path)
shutil_rmtree(f, path) ==
    Bind(namei(f, path), LAMBDA r :
        IF r.err # "" THEN Raise(f, r.err, path)
        ELSE IF f[r.path].type # "dir" THEN Raise(f, "ENOTDIR", path)
        ELSE os_rmdir(Without(f, Descendants(f, r.path)), path))

\* str(pathlib.Path(path)) of an absolute path: empty and "." components go,
\* ".." components stay
PurePath(path) ==
    "/" \o Join(SelectSeq(Split(path, "/"), LAMBDA c : c \notin {"", "."}), "/")

\* touch that opens an existing file for writing
path_touch_Truncates(f, path) ==
    Bind(PurePath(path), LAMBDA q :
    Bind(ParentDir(f, q), LAMBDA p :
        IF isfile(f, q) THEN Done(With(f, namei(f, q).path, FileNode("")))
        ELSE IF exists(f, q) THEN Done(f)
        ELSE IF p.err # "" THEN Raise(f, p.err, q)
        ELSE IF p.name \in {"", ".", ".."} THEN Raise(f, "EISDIR", q)
        ELSE Done(With(f, Child(p.dir, p.name), FileNode("")))))

\* pathlib.Path(path).touch(): os.utime when the path exists, else os.open(O_CREAT)
path_touch(f, path) ==
    Bind(PurePath(path), LAMBDA q :
    Bind(ParentDir(f, q), LAMBDA p :
        IF exists(f, q) THEN Done(f)
        ELSE IF p.err # "" THEN Raise(f, p.err, q)
        ELSE IF p.name \in {"", ".", ".."} THEN Raise(f, "EISDIR", q)
        ELSE Done(With(f, Child(p.dir, p.name), FileNode("")))))

\* open(path, 'r').read(): [exc, msg, data]
read_file(f, path) ==
    Bind(namei(f, path), LAMBDA r :
        IF r.err # "" THEN [exc |-> ErrClass(r.err), msg |-> ErrText(r.err, path), data |-> ""]
        ELSE IF f[r.path].type = "dir"
        THEN [exc |-> "IsADirectoryError", msg |-> ErrText("EISDIR", path), data |-> ""]
        ELSE [exc |-> "", msg |-> "", data |-> f[r.path].data])

\* an exception that is no plain OSError for one path
RaiseText(f, exc, msg) == [fs |-> f, exc |-> exc, msg |-> msg]

\* os.path.samefile, False when either path cannot be stat'ed
samefile(f, a, b) ==
    Bind(namei(f, a), LAMBDA x :
    Bind(namei(f, b), LAMBDA y :
        x.err = "" /\ y.err = "" /\ x.path = y.path))

\* shutil.copy2(src, dst): copyfile into dst, or into dst/basename(src) when
\* dst is a directory
shutil_copy2(f, src, dst0) ==
    Bind(IF isdir(f, dst0) THEN join(dst0, basename(src)) ELSE dst0, LAMBDA dst :
    Bind(namei(f, src), LAMBDA sn :
    Bind(namei(f, dst), LAMBDA dn :
    Bind(ParentDir(f, dst), LAMBDA p :
        IF samefile(f, src, dst)
        THEN RaiseText(f, "SameFileError", "'" \o src \o "' and '" \o dst \o "' are the same file")
        ELSE IF sn.err # "" THEN Raise(f, sn.err, src)
        ELSE IF f[sn.path].type = "dir" THEN Raise(f, "EISDIR", src)
        ELSE IF dn.err = ""
        THEN (IF f[dn.path].type = "dir" THEN Raise(f, "EISDIR", dst)
              ELSE Done(With(f, dn.path, FileNode(f[sn.path].data))))
        ELSE IF p.err # "" THEN Raise(f, p.err, dst)
        ELSE IF p.name \in {"", ".", ".."} \/ EndsWith(dst, "/") THEN Raise(f, "EISDIR", dst)
        ELSE Done(With(f, Child(p.dir, p.name), FileNode(f[sn.path].data)))))))

\* shutil.copytree(src, dst): the entries of src are listed, dst is made with
\* os.makedirs(dst) and each entry is copied in turn; the failures of the
\* entries are raised together at the end
RECURSIVE shutil_copytree(_, _, _)
RECURSIVE CopyEntries(_, _, _, _, _)
CopyEntries(f, src, dst, names, failed) ==
    IF Len(names) = 0
    THEN (IF failed = "" THEN Done(f) ELSE RaiseText(f, "Error", failed))
    ELSE Bind(join(src, Head(names)), LAMBDA srcname :
         Bind(join(dst, Head(names)), LAMBDA dstname :
         Bind(IF isdir(f, srcname) THEN shutil_copytree(f, srcname, dstname)
                  ELSE shutil_copy2(f, srcname, dstname), LAMBDA r :
             CopyEntries(r.fs, src, dst, Tail(names),
                         IF failed = "" THEN r.msg ELSE failed))))

shutil_copytree(f, src, dst) ==
    Bind(namei(f, src), LAMBDA sn :
    Bind(os_makedirs(f, dst, FALSE), LAMBDA made :
        IF sn.err # "" THEN Raise(f, sn.err, src)
        ELSE IF f[sn.path].type # "dir" THEN Raise(f, "ENOTDIR", src)
        ELSE IF made.exc # "" THEN made
        ELSE CopyEntries(made.fs, src, dst, Sorted(listdir(f, sn.path)), "")))

\* str(e) of an OSError raised for two paths
ErrText2(code, src, dst) ==
    (CASE code = "ENOENT" -> "[Errno 2] No such file or directory"
       [] code = "ENOTDIR" -> "[Errno 20] Not a directory"
       [] code = "EISDIR" -> "[Errno 21] Is a directory"
       [] code = "ENOTEMPTY" -> "[Errno 39] Directory not empty"
       [] code = "EINVAL" -> "[Errno 22] Invalid argument"
       [] code = "EBUSY" -> "[Errno 16] Device or resource busy"
       [] OTHER -> code) \o ": '" \o src \o "' -> '" \o dst \o "'"

Raise2(f, code, src, dst) == [fs |-> f, exc |-> ErrClass(code), msg |-> ErrText2(code, src, dst)]

\* the entries at and beneath `from`, carried to `to`
Moved(f, from, to) ==
    LET gone == {q \in DOMAIN f : Beneath(q, from)}
        New(q) == to \o Slice(q, Len(from) + 1)
        kept == Without(f, gone \cup {q \in DOMAIN f : Beneath(q, to)})
    IN  [q \in DOMAIN kept \cup {New(g) : g \in gone} |->
            IF \E g \in gone : New(g) = q
            THEN f[CHOOSE g \in gone : New(g) = q]
            ELSE kept[q]]

\* os.rename(src, dst)
os_rename(f, src, dst) ==
    Bind(ParentDir(f, src), LAMBDA sp :
    Bind(ParentDir(f, dst), LAMBDA dp :
    Bind(Child(sp.dir, sp.name), LAMBDA from :
    Bind(Child(dp.dir, dp.name), LAMBDA to :
        IF sp.err # "" THEN Raise2(f, sp.err, src, dst)
        ELSE IF dp.err # "" THEN Raise2(f, dp.err, src, dst)
        ELSE IF {sp.name, dp.name} \cap {"", ".", ".."} # {} THEN Raise2(f, "EBUSY", src, dst)
        ELSE IF from \notin DOMAIN f THEN Raise2(f, "ENOENT", src, dst)
        ELSE IF f[from].type = "file" /\ (EndsWith(src, "/") \/ EndsWith(dst, "/"))
        THEN Raise2(f, "ENOTDIR", src, dst)
        ELSE IF from = to THEN Done(f)
        ELSE IF f[from].type = "dir" /\ Beneath(to, from) THEN Raise2(f, "EINVAL", src, dst)
        ELSE IF Beneath(from, to) THEN Raise2(f, "ENOTEMPTY", src, dst)
        ELSE IF to \in DOMAIN f /\ f[from].type = "dir" /\ f[to].type = "file"
        THEN Raise2(f, "ENOTDIR", src, dst)
        ELSE IF to \in DOMAIN f /\ f[from].type = "dir" /\ Descendants(f, to) # {}
        THEN Raise2(f, "ENOTEMPTY", src, dst)
        ELSE IF to \in DOMAIN f /\ f[from].type = "file" /\ f[to].type = "dir"
        THEN Raise2(f, "EISDIR", src, dst)
        ELSE Done(Moved(f, from, to))))))

\* shutil._destinsrc
_destinsrc(src, dst) ==
    Bind(normpath(src), LAMBDA a :
    Bind(normpath(dst), LAMBDA b :
        StartsWith(IF EndsWith(b, "/") THEN b ELSE b \o "/",
                   IF EndsWith(a, "/") THEN a ELSE a \o "/")))

\* shutil.move(src, dst)
shutil_move(f, src, dst) ==
    Bind(isdir(f, dst), LAMBDA dstdir :
    Bind(IF dstdir THEN join(dst, basename(RStripSlash(src))) ELSE dst, LAMBDA real_dst :
    Bind(os_rename(f, src, real_dst), LAMBDA renamed :
    Bind(shutil_copytree(f, src, real_dst), LAMBDA tree :
    Bind(shutil_copy2(f, src, real_dst), LAMBDA copied :
        IF dstdir /\ samefile(f, src, dst) THEN os_rename(f, src, dst)
        ELSE IF dstdir /\ exists(f, real_dst)
        THEN RaiseText(f, "Error", "Destination path '" \o real_dst \o "' already exists")
        ELSE IF renamed.exc = "" THEN renamed
        ELSE IF isdir(f, src)
        THEN (IF _destinsrc(src, dst)
              THEN RaiseText(f, "Error", "Cannot move a directory '" \o src
                                             \o "' into itself '" \o dst \o "'.")
              ELSE IF tree.exc # "" THEN tree
              ELSE shutil_rmtree(tree.fs, src))
        ELSE IF copied.exc # "" THEN copied
        ELSE os_remove(copied.fs, src))))))

-----------------------------------------------------------------------------
(* The built-in commands.  A handler returns the file system and current   *)
(* directory it leaves, its CommandResult, and the per-target error        *)
(* messages it collected over its n targets.                               *)

HR(f, cwd, output, error, success, n, errors) ==
    [fs |-> f, cwd |-> cwd, output |-> output, error |-> error,
     success |-> success, n |-> n, errors |-> errors, handler |-> ""]

\* the handler that produced a result
Tag(name, r) == [r EXCEPT !.handler = name]

\* a result that touches nothing
Plain(f, cwd, output, error, success) == HR(f, cwd, output, error, success, 0, <<>>)

NonFlags(args) == SelectSeq(args, LAMBDA a : ~StartsWith(a, "-"))

\* the components of abspath(path), as os.path.relpath lists them
PathList(path) == SelectSeq(Split(normpath(path), "/"), LAMBDA x : x # "")

RECURSIVE CommonLen(_, _)
CommonLen(a, b) ==
    IF Len(a) = 0 \/ Len(b) = 0 \/ Head(a) # Head(b) THEN 0
    ELSE 1 + CommonLen(Tail(a), Tail(b))

\* os.path.relpath(path, start) for absolute paths
relpath(path, start) ==
    Bind(PathList(start), LAMBDA start_list :
    Bind(PathList(path), LAMBDA path_list :
    Bind(CommonLen(start_list, path_list), LAMBDA i :
    Bind([k \in 1..(Len(start_list) - i) |-> ".."]
                        \o SubSeq(path_list, i + 1, Len(path_list)), LAMBDA rel_list :
        IF Len(rel_list) = 0 THEN "." ELSE Join(rel_list, "/")))))

\* _pwd with os.path.basename in place of os.path.relpath
_pwd_Basename(f, cwd) ==
    Bind(basename(cwd), LAMBDA rel_path :
        IF cwd = base_directory THEN Plain(f, cwd, "/workspace", "", TRUE)
        ELSE Plain(f, cwd, "/workspace/" \o rel_path, "", TRUE))

_pwd(f, cwd) ==
    Bind(relpath(cwd, base_directory), LAMBDA rel_path :
        IF rel_path = "." THEN Plain(f, cwd, "/workspace", "", TRUE)
        ELSE Plain(f, cwd, "/workspace/" \o rel_path, "", TRUE))

\* _cd with the assignment to current_directory moved above its two checks
_cd_AssignsFirst(f, cwd, args) ==
    IF Len(args) = 0 THEN Plain(f, base_directory, "", "", TRUE)
    ELSE Bind(args[1], LAMBDA target :
         Bind(_safe_path(cwd, target), LAMBDA new_path :
             IF ~exists(f, new_path)
             THEN Plain(f, new_path, "", "cd: " \o target \o ": No such file or directory", FALSE)
             ELSE IF ~isdir(f, new_path)
             THEN Plain(f, new_path, "", "cd: " \o target \o ": Not a directory", FALSE)
             ELSE Plain(f, new_path, "", "", TRUE)))

\* _cd whose bare form stays where it is
_cd_BareStays(f, cwd, args) ==
    IF Len(args) = 0 THEN Plain(f, cwd, "", "", TRUE)
    ELSE Bind(args[1], LAMBDA target :
         Bind(_safe_path(cwd, target), LAMBDA new_path :
             IF ~exists(f, new_path)
             THEN Plain(f, cwd, "", "cd: " \o target \o ": No such file or directory", FALSE)
             ELSE IF ~isdir(f, new_path)
             THEN Plain(f, cwd, "", "cd: " \o target \o ": Not a directory", FALSE)
             ELSE Plain(f, new_path, "", "", TRUE)))

_cd(f, cwd, args) ==
    IF Len(args) = 0 THEN Plain(f, base_directory, "", "", TRUE)
    ELSE Bind(args[1], LAMBDA target :
         Bind(_safe_path(cwd, target), LAMBDA new_path :
             IF ~exists(f, new_path)
             THEN Plain(f, cwd, "", "cd: " \o target \o ": No such file or directory", FALSE)
             ELSE IF ~isdir(f, new_path)
             THEN Plain(f, cwd, "", "cd: " \o target \o ": Not a directory", FALSE)
             ELSE Plain(f, new_path, "", "", TRUE)))

\* the loop of _mkdir over dirs_to_create: [fs, errors]
RECURSIVE MkdirLoop(_, _, _, _, _)
MkdirLoop(f, cwd, dirs, recursive, errors) ==
    IF Len(dirs) = 0 THEN [fs |-> f, errors |-> errors]
    ELSE Bind(Head(dirs), LAMBDA dir_name :
         Bind(_safe_path(cwd, dir_name), LAMBDA dir_path :
         Bind(IF recursive THEN os_makedirs(f, dir_path, TRUE) ELSE os_mkdir(f, dir_path), LAMBDA r :
         Bind(IF r.exc = "" THEN <<>>
                  ELSE IF r.exc = "FileExistsError"
                  THEN <<"mkdir: " \o dir_name \o ": File exists">>
                  ELSE <<"mkdir: " \o dir_name \o ": " \o r.msg>>, LAMBDA e :
             MkdirLoop(r.fs, cwd, Tail(dirs), recursive, errors \o e)))))

\* the return statements of _mkdir, given the errors collected over n targets
MkdirResult(f, cwd, n, errors) ==
    IF Len(errors) > 0 THEN HR(f, cwd, "", Join(errors, "\n"), FALSE, n, errors)
    ELSE HR(f, cwd, "", "", TRUE, n, errors)

\* _mkdir that never takes the os.makedirs branch
_mkdir_IgnoresP(f, cwd, args) ==
    Bind(NonFlags(args), LAMBDA dirs_to_create :
    Bind(MkdirLoop(f, cwd, dirs_to_create, FALSE, <<>>), LAMBDA r :
        IF Len(args) = 0 \/ Len(dirs_to_create) = 0
        THEN Plain(f, cwd, "", "mkdir: missing operand", FALSE)
        ELSE MkdirResult(r.fs, cwd, Len(dirs_to_create), r.errors)))

\* _mkdir that moves into the directory it made
_mkdir_Enters(f, cwd, args) ==
    Bind("-p" \in Range(args), LAMBDA recursive :
    Bind(NonFlags(args), LAMBDA dirs_to_create :
    Bind(MkdirLoop(f, cwd, dirs_to_create, recursive, <<>>), LAMBDA r :
        IF Len(args) = 0 \/ Len(dirs_to_create) = 0
        THEN Plain(f, cwd, "", "mkdir: missing operand", FALSE)
        ELSE MkdirResult(r.fs,
                         IF Len(r.errors) = 0 THEN _safe_path(cwd, dirs_to_create[1]) ELSE cwd,
                         Len(dirs_to_create), r.errors))))

_mkdir(f, cwd, args) ==
    Bind("-p" \in Range(args), LAMBDA recursive :
    Bind(NonFlags(args), LAMBDA dirs_to_create :
    Bind(MkdirLoop(f, cwd, dirs_to_create, recursive, <<>>), LAMBDA r :
        IF Len(args) = 0 \/ Len(dirs_to_create) = 0
        THEN Plain(f, cwd, "", "mkdir: missing operand", FALSE)
        ELSE MkdirResult(r.fs, cwd, Len(dirs_to_create), r.errors))))

\* the loop of _rm over files_to_remove: [fs, errors]
RECURSIVE RmLoop(_, _, _, _, _, _)
RmLoop(f, cwd, files, recursive, force, errors) ==
    IF Len(files) = 0 THEN [fs |-> f, errors |-> errors]
    ELSE Bind(Head(files), LAMBDA file_name :
         Bind(_safe_path(cwd, file_name), LAMBDA file_path :
         Bind(isdir(f, file_path), LAMBDA dir :
         Bind(IF dir THEN (IF recursive THEN shutil_rmtree(f, file_path) ELSE Done(f))
                  ELSE os_remove(f, file_path), LAMBDA r :
         Bind(IF dir /\ ~recursive THEN <<"rm: " \o file_name \o ": is a directory">>
                  ELSE IF r.exc = "" THEN <<>>
                  ELSE IF r.exc = "FileNotFoundError"
                  THEN (IF force THEN <<>>
                        ELSE <<"rm: " \o file_name \o ": No such file or directory">>)
                  ELSE <<"rm: " \o file_name \o ": " \o r.msg>>, LAMBDA e :
             RmLoop(r.fs, cwd, Tail(files), recursive, force, errors \o e))))))

\* the result of _rm, _cp and _mv with "success": False in place of the comparison
PartialResult_AnyErrorFails(f, cwd, n, errors) ==
    IF Len(errors) > 0 THEN HR(f, cwd, "", Join(errors, "\n"), FALSE, n, errors)
    ELSE HR(f, cwd, "", "", TRUE, n, errors)

\* the return statements shared by _rm, _cp and _mv
PartialResult(f, cwd, n, errors) ==
    IF Len(errors) > 0 THEN HR(f, cwd, "", Join(errors, "\n"), Len(errors) < n, n, errors)
    ELSE HR(f, cwd, "", "", TRUE, n, errors)

_rm(f, cwd, args) ==
    Bind("-r" \in Range(args) \/ "-rf" \in Range(args), LAMBDA recursive :
    Bind("-f" \in Range(args) \/ "-rf" \in Range(args), LAMBDA force :
    Bind(NonFlags(args), LAMBDA files_to_remove :
    Bind(RmLoop(f, cwd, files_to_remove, recursive, force, <<>>), LAMBDA r :
        IF Len(args) = 0 \/ Len(files_to_remove) = 0
        THEN Plain(f, cwd, "", "rm: missing operand", FALSE)
        ELSE PartialResult(r.fs, cwd, Len(files_to_remove), r.errors)))))

\* the loop of _rmdir over its arguments: [fs, errors]
RECURSIVE RmdirLoop(_, _, _, _)
RmdirLoop(f, cwd, dirs, errors) ==
    IF Len(dirs) = 0 THEN [fs |-> f, errors |-> errors]
    ELSE Bind(Head(dirs), LAMBDA dir_name :
         Bind(os_rmdir(f, _safe_path(cwd, dir_name)), LAMBDA r :
         Bind(IF r.exc = "" THEN <<>> ELSE <<"rmdir: " \o dir_name \o ": " \o r.msg>>, LAMBDA e :
             RmdirLoop(r.fs, cwd, Tail(dirs), errors \o e))))

\* the return statements of _rmdir with a summary printed beside the errors
RmdirResult_Summarised(f, cwd, n, errors) ==
    IF Len(errors) > 0
    THEN HR(f, cwd, "rmdir: " \o ToString(Len(errors)) \o " not removed", Join(errors, "\n"),
            FALSE, n, errors)
    ELSE HR(f, cwd, "", "", TRUE, n, errors)

\* the return statements of _rmdir
RmdirResult(f, cwd, n, errors) ==
    IF Len(errors) > 0 THEN HR(f, cwd, "", Join(errors, "\n"), FALSE, n, errors)
    ELSE HR(f, cwd, "", "", TRUE, n, errors)

_rmdir(f, cwd, args) ==
    Bind(RmdirLoop(f, cwd, args, <<>>), LAMBDA r :
        IF Len(args) = 0 THEN Plain(f, cwd, "", "rmdir: missing operand", FALSE)
        ELSE RmdirResult(r.fs, cwd, Len(args), r.errors))

\* the loop of _cat over its arguments: [output_lines, errors]
RECURSIVE CatLoop(_, _, _, _, _)
CatLoop(f, cwd, files, output_lines, errors) ==
    IF Len(files) = 0 THEN [output_lines |-> output_lines, errors |-> errors]
    ELSE Bind(Head(files), LAMBDA file_name :
         Bind(read_file(f, _safe_path(cwd, file_name)), LAMBDA r :
         Bind(IF r.exc = "" THEN <<>>
                  ELSE IF r.exc = "FileNotFoundError"
                  THEN <<"cat: " \o file_name \o ": No such file or directory">>
                  ELSE IF r.exc = "IsADirectoryError"
                  THEN <<"cat: " \o file_name \o ": Is a directory">>
                  ELSE <<"cat: " \o file_name \o ": " \o r.msg>>, LAMBDA e :
         Bind(IF r.exc = "" THEN <<r.data>> ELSE <<>>, LAMBDA o :
             CatLoop(f, cwd, Tail(files), output_lines \o o, errors \o e)))))

\* _cat with '\n'.join(output_lines)
_cat_NewlineJoined(f, cwd, args) ==
    Bind(CatLoop(f, cwd, args, <<>>, <<>>), LAMBDA r :
        IF Len(args) = 0 THEN Plain(f, cwd, "", "cat: missing file operand", FALSE)
        ELSE HR(f, cwd, Join(r.output_lines, "\n"), Join(r.errors, "\n"),
                Len(r.errors) = 0, Len(args), r.errors))

_cat(f, cwd, args) ==
    Bind(CatLoop(f, cwd, args, <<>>, <<>>), LAMBDA r :
        IF Len(args) = 0 THEN Plain(f, cwd, "", "cat: missing file operand", FALSE)
        ELSE HR(f, cwd, Join(r.output_lines, ""), Join(r.errors, "\n"),
                Len(r.errors) = 0, Len(args), r.errors))

\* the loop of _touch over its arguments: [fs, errors]
RECURSIVE TouchLoop(_, _, _, _)
TouchLoop(f, cwd, files, errors) ==
    IF Len(files) = 0 THEN [fs |-> f, errors |-> errors]
    ELSE Bind(Head(files), LAMBDA file_name :
         Bind(path_touch(f, _safe_path(cwd, file_name)), LAMBDA r :
         Bind(IF r.exc = "" THEN <<>> ELSE <<"touch: " \o file_name \o ": " \o r.msg>>, LAMBDA e :
             TouchLoop(r.fs, cwd, Tail(files), errors \o e))))

_touch(f, cwd, args) ==
    Bind(TouchLoop(f, cwd, args, <<>>), LAMBDA r :
        IF Len(args) = 0 THEN Plain(f, cwd, "", "touch: missing file operand", FALSE)
        ELSE IF Len(r.errors) > 0
        THEN HR(r.fs, cwd, "", Join(r.errors, "\n"), FALSE, Len(args), r.errors)
        ELSE HR(r.fs, cwd, "", "", TRUE, Len(args), r.errors))

\* the loop of _cp over source_files: [fs, errors]
RECURSIVE CpLoop(_, _, _, _, _, _)
CpLoop(f, cwd, sources, dest_path, recursive, errors) ==
    IF Len(sources) = 0 THEN [fs |-> f, errors |-> errors]
    ELSE Bind(Head(sources), LAMBDA source :
         Bind(_safe_path(cwd, source), LAMBDA source_path :
         Bind(isdir(f, source_path), LAMBDA dir :
         Bind(IF dir
                  THEN (IF ~recursive THEN Done(f)
                        ELSE IF isdir(f, dest_path)
                        THEN shutil_copytree(f, source_path,
                                             join(dest_path, basename(source_path)))
                        ELSE shutil_copytree(f, source_path, dest_path))
                  ELSE shutil_copy2(f, source_path, dest_path), LAMBDA r :
         Bind(IF dir /\ ~recursive
                  THEN <<"cp: " \o source \o ": is a directory (not copied)">>
                  ELSE IF r.exc = "" THEN <<>>
                  ELSE <<"cp: " \o source \o ": " \o r.msg>>, LAMBDA e :
             CpLoop(r.fs, cwd, Tail(sources), dest_path, recursive, errors \o e))))))

_cp(f, cwd, args) ==
    Bind("-r" \in Range(args), LAMBDA recursive :
    Bind(NonFlags(SubSeq(args, 1, Len(args) - 1)), LAMBDA source_files :
    Bind(args[Len(args)], LAMBDA dest :
    Bind(_safe_path(cwd, dest), LAMBDA dest_path :
    Bind(CpLoop(f, cwd, source_files, dest_path, recursive, <<>>), LAMBDA r :
        IF Len(args) < 2 \/ Len(source_files) = 0
        THEN Plain(f, cwd, "", "cp: missing file operand", FALSE)
        ELSE PartialResult(r.fs, cwd, Len(source_files), r.errors))))))

\* the loop of _mv over source_files: [fs, errors]
RECURSIVE MvLoop(_, _, _, _, _)
MvLoop(f, cwd, sources, dest_path, errors) ==
    IF Len(sources) = 0 THEN [fs |-> f, errors |-> errors]
    ELSE Bind(Head(sources), LAMBDA source :
         Bind(_safe_path(cwd, source), LAMBDA source_path :
         Bind(IF isdir(f, dest_path)
                  THEN shutil_move(f, source_path, join(dest_path, basename(source_path)))
                  ELSE shutil_move(f, source_path, dest_path), LAMBDA r :
         Bind(IF r.exc = "" THEN <<>> ELSE <<"mv: " \o source \o ": " \o r.msg>>, LAMBDA e :
             MvLoop(r.fs, cwd, Tail(sources), dest_path, errors \o e)))))

_mv(f, cwd, args) ==
    Bind(SubSeq(args, 1, Len(args) - 1), LAMBDA source_files :
    Bind(args[Len(args)], LAMBDA dest :
    Bind(_safe_path(cwd, dest), LAMBDA dest_path :
    Bind(MvLoop(f, cwd, source_files, dest_path, <<>>), LAMBDA r :
        IF Len(args) < 2 THEN Plain(f, cwd, "", "mv: missing file operand", FALSE)
        ELSE PartialResult(r.fs, cwd, Len(source_files), r.errors)))))

_echo(f, cwd, args) == Plain(f, cwd, Join(args, " "), "", TRUE)

\* f"{i:>4}"
RJust4(i) ==
    Bind(ToString(i), LAMBDA d :
        IF Len(d) >= 4 THEN d ELSE SubSeq("    ", 1, 4 - Len(d)) \o d)

HISTORY_SHOWN == 50

\* _history numbering by enumerate over the whole list
_history_AbsoluteIndex(f, cwd, history) ==
    Bind(Len(history), LAMBDA n :
    Bind(IF n > HISTORY_SHOWN THEN n - HISTORY_SHOWN ELSE 0, LAMBDA skipped :
    Bind([i \in 1..(n - skipped) |-> RJust4(skipped + i) \o "  " \o history[skipped + i]],
         LAMBDA history_with_numbers :
        Plain(f, cwd, Join(history_with_numbers, "\n"), "", TRUE))))

_history(f, cwd, history) ==
    Bind(Len(history), LAMBDA n :
    Bind(IF n > HISTORY_SHOWN THEN SubSeq(history, n - HISTORY_SHOWN + 1, n) ELSE history, LAMBDA shown :
    Bind([i \in 1..Len(shown) |-> RJust4(i) \o "  " \o shown[i]], LAMBDA history_with_numbers :
        Plain(f, cwd, Join(history_with_numbers, "\n"), "", TRUE))))

-----------------------------------------------------------------------------
(* ls *)

RECURSIVE Spaces(_)
Spaces(n) == IF n <= 0 THEN "" ELSE " " \o Spaces(n - 1)

\* s.ljust(w + 2): the gap between columns padded into every column
LJust_Wide(s, w) == s \o Spaces(w + 2 - Len(s))

\* s.ljust(w)
LJust(s, w) == s \o Spaces(w - Len(s))

\* f"{n:>8}"
RJust8(n) == Spaces(8 - Len(ToString(n))) \o ToString(n)

RECURSIVE MaxLen(_)
MaxLen(items) ==
    IF Len(items) = 0 THEN 0
    ELSE Bind(MaxLen(Tail(items)), LAMBDA m :
             IF Len(Head(items)) > m THEN Len(Head(items)) ELSE m)

\* st_size of an entry: the content's length, a block for a directory
DIR_SIZE == 4096

StSize(node) == IF node.type = "dir" THEN DIR_SIZE ELSE Len(node.data)

\* strftime('%b %d %H:%M') of st_mtime; time stamps are not modelled, every
\* entry shows the same one
MTime == "Jan 01 00:00"

LS_WIDTH == 80

\* the rows of the non-long listing: items[i:i+cols] for i in range(0, len, cols)
RECURSIVE LsRows(_, _, _)
LsRows(items, cols, max_len) ==
    IF Len(items) = 0 THEN <<>>
    ELSE Bind(IF Len(items) < cols THEN Len(items) ELSE cols, LAMBDA k :
         Bind([j \in 1..k |-> LJust(items[j], max_len)], LAMBDA row :
             <<Join(row, "  ")>> \o LsRows(SubSeq(items, k + 1, Len(items)), cols, max_len)))

\* the first argument that is no flag; "" when there is none
FirstNonFlag(args) == IF Len(NonFlags(args)) = 0 THEN "" ELSE NonFlags(args)[1]

\* show_hidden read off any flag that holds the letter a
ShowHidden_AnyFlag(args) ==
    \E i \in DOMAIN args : StartsWith(args[i], "-") /\ Find(args[i], "a", 1) > 0

\* '-a' in args or '-la' in args or '-al' in args
ShowHidden(args) == {"-a", "-la", "-al"} \cap Range(args) # {}

_ls(f, cwd, args) ==
    LET show_hidden == ShowHidden(args)
        long_format == {"-l", "-la", "-al"} \cap Range(args) # {}
        named == Len(NonFlags(args)) > 0
        target_dir == IF named THEN _safe_path(cwd, FirstNonFlag(args)) ELSE cwd
        \* the loop variable after the loop: the argument it broke on, else the last one
        arg == IF named THEN FirstNonFlag(args) ELSE args[Len(args)]
        t == namei(f, target_dir)
        names == {x \in listdir(f, t.path) : show_hidden \/ ~StartsWith(x, ".")}
        LongRow(x) ==
            LET node == f[Child(t.path, x)]
            IN  (IF node.type = "dir" THEN "drwxr-xr-x" ELSE "-rw-r--r--")
                    \o " 1 user user " \o RJust8(StSize(node)) \o " " \o MTime \o " " \o x
        ShortItem(x) == IF f[Child(t.path, x)].type = "dir" THEN x \o "/" ELSE x
        items == Sorted({ShortItem(x) : x \in names})
        max_len == MaxLen(items)
        cols == IF LS_WIDTH \div (max_len + 2) > 1 THEN LS_WIDTH \div (max_len + 2) ELSE 1
    IN  IF t.err # ""
        THEN IF Len(args) = 0
             \* `arg` was never bound: the NameError is caught by _ls itself
             THEN Plain(f, cwd, "",
                        "ls: cannot access local variable 'arg' where it is not associated with a value",
                        FALSE)
             ELSE Plain(f, cwd, "", "ls: " \o arg \o ": No such file or directory", FALSE)
        ELSE IF f[t.path].type = "file"
        THEN IF long_format
             THEN Plain(f, cwd, "-rw-r--r-- 1 user user " \o RJust8(StSize(f[t.path])) \o " "
                                    \o MTime \o " " \o basename(target_dir), "", TRUE)
             ELSE Plain(f, cwd, basename(target_dir), "", TRUE)
        ELSE IF long_format
        THEN Plain(f, cwd, Join(Sorted({LongRow(x) : x \in names}), "\n"), "", TRUE)
        ELSE Plain(f, cwd, Join(LsRows(items, cols, max_len), "\n"), "", TRUE)

\* the output of _system_info: a block opened by this line, whose platform
\* and clock values are not modelled
SYSINFO_TEXT == "System Information (Web Environment):"

_system_info(f, cwd) == Plain(f, cwd, SYSINFO_TEXT, "", TRUE)

_process_list(f, cwd) ==
    Plain(f, cwd, "Process listing restricted in web environment for security.", "", TRUE)

\* the output of _help: the fixed reference text, by its first line
HELP_TEXT == "Available Commands (Web Terminal):"

_help(f, cwd) == Plain(f, cwd, HELP_TEXT, "", TRUE)

-----------------------------------------------------------------------------
(* The natural-language patterns.  Each regular expression is matched as   *)
(* re.search matches it; a group is "" when the pattern does not match     *)
(* (a group of a matching pattern is never empty).                         *)

\* the positions at which `sub` occurs in s
Occurrences(s, sub) ==
    {i \in 1..(Len(s) - Len(sub) + 1) : SubSeq(s, i, i + Len(sub) - 1) = sub}

Contains(s, sub) == Occurrences(s, sub) # {}

\* the occurrences of the `words` in s, each as <<start, position after it>>
Spans(s, words) ==
    UNION {{<<i, i + Len(w)>> : i \in Occurrences(s, w)} : w \in words}

\* the positions just after an occurrence of one of `words`
EndsOf(s, words) == {p[2] : p \in Spans(s, words)}

\* the span that starts first
Leftmost(spans) == CHOOSE p \in spans : \A q \in spans : p[1] <= q[1]

IsWordChar(c) == c # "" /\ Find("abcdefghijklmnopqrstuvwxyzABCDEFGHIJKLMNOPQRSTUVWXYZ0123456789_", c, 1) # 0

\* the maximal run of word characters at the head of s
RECURSIVE WordRun(_)
WordRun(s) ==
    IF s # "" /\ IsWordChar(Char(s, 1)) THEN Char(s, 1) \o WordRun(Slice(s, 2)) ELSE ""

\* the maximal run of non-white-space characters at the head of s
RECURSIVE TokenRun(_)
TokenRun(s) ==
    IF s # "" /\ ~IsSpace(Char(s, 1)) THEN Char(s, 1) \o TokenRun(Slice(s, 2)) ELSE ""

Min(S) == CHOOSE x \in S : \A y \in S : x <= y
Max(S) == CHOOSE x \in S : \A y \in S : x >= y

\* the pattern without its `.*(?:called|named)`: the group is the run that
\* follows the first kind
CreateNamed_AfterKind(s, kinds, word_only) ==
    LET Group(e) == IF word_only THEN WordRun(LStrip(Slice(s, e)))
                    ELSE TokenRun(LStrip(Slice(s, e)))
        kindEnds == {k[2] : k \in {k \in Spans(s, kinds) :
                                      /\ \E c \in Spans(s, {"create"}) : c[2] <= k[1]
                                      /\ k[2] <= Len(s) /\ IsSpace(Char(s, k[2]))
                                      /\ Group(k[2]) # ""}}
    IN  IF kindEnds = {} THEN "" ELSE Group(Min(kindEnds))

\* create.*(?:<kinds>).*(?:called|named)\s+(<run>): the group.  Both .* are
\* greedy, so the group follows the last "called"/"named" that has a kind
\* and, before the kind, "create" in front of it
CreateNamed(s, kinds, word_only) ==
    LET Group(e) == IF word_only THEN WordRun(LStrip(Slice(s, e)))
                    ELSE TokenRun(LStrip(Slice(s, e)))
        kindSpans == {k \in Spans(s, kinds) : \E c \in Spans(s, {"create"}) : c[2] <= k[1]}
        nameEnds == {n[2] : n \in {n \in Spans(s, {"called", "named"}) :
                                      /\ \E k \in kindSpans : k[2] <= n[1]
                                      /\ n[2] <= Len(s) /\ IsSpace(Char(s, n[2]))
                                      /\ Group(n[2]) # ""}}
    IN  IF nameEnds = {} THEN "" ELSE Group(Max(nameEnds))

\* (?:make|create)\s+(?:a\s+)?(?:folder|directory|dir)\s+(\w+): the group
MakeFolder(s) ==
    LET Kind(t) ==      \* the group when t opens with a kind, white space and a word
            Bind({k \in {"folder", "directory", "dir"} :
                          /\ StartsWith(t, k) /\ Len(t) > Len(k) /\ IsSpace(Char(t, Len(k) + 1))
                          /\ WordRun(LStrip(Slice(t, Len(k) + 1))) # ""}, LAMBDA ks :
                IF ks = {} THEN ""
                ELSE WordRun(LStrip(Slice(t, Len(CHOOSE k \in ks : TRUE) + 1))))
        At(e) ==        \* the group when the verb ends before e
            Bind(LStrip(Slice(s, e)), LAMBDA t :
            Bind(IF StartsWith(t, "a") /\ Len(t) > 1 /\ IsSpace(Char(t, 2))
                     THEN LStrip(Slice(t, 2)) ELSE "", LAMBDA u :
                IF e > Len(s) \/ ~IsSpace(Char(s, e)) THEN ""
                ELSE IF Kind(u) # "" THEN Kind(u)
                ELSE Kind(t)))
        hits == {p \in Spans(s, {"make", "create"}) : At(p[2]) # ""}
    IN  IF hits = {} THEN "" ELSE At(Leftmost(hits)[2])

\* <verb>\s+(\S+)\s+(?:to|into)\s+(?:the\s+)?(\S+): <<source, dest>>, or <<>>
VerbTo(s, verb) ==
    LET At(e) ==
            Bind(SplitWs(Slice(s, e)), LAMBDA toks :
                IF e > Len(s) \/ ~IsSpace(Char(s, e)) THEN <<>>
                ELSE IF Len(toks) < 3 \/ toks[2] \notin {"to", "into"} THEN <<>>
                ELSE IF toks[3] = "the" /\ Len(toks) >= 4 THEN <<toks[1], toks[4]>>
                ELSE <<toks[1], toks[3]>>)
        hits == {e \in EndsOf(s, {verb}) : At(e) # <<>>}
    IN  IF hits = {} THEN <<>> ELSE At(Min(hits))

\* (?:delete|remove)\s+(?:file\s+)?(\S+)
DeleteName(s) ==
    LET At(e) ==
            Bind(SplitWs(Slice(s, e)), LAMBDA toks :
                IF e > Len(s) \/ ~IsSpace(Char(s, e)) \/ Len(toks) = 0 THEN ""
                ELSE IF toks[1] = "file" /\ Len(toks) >= 2 THEN toks[2]
                ELSE toks[1])
        hits == {e \in EndsOf(s, {"delete", "remove"}) : At(e) # ""}
    IN  IF hits = {} THEN "" ELSE At(Min(hits))

\* (?:go|navigate)\s+to\s+(\S+)
GoTo(s) ==
    LET At(e) ==
            Bind(SplitWs(Slice(s, e)), LAMBDA toks :
                IF e > Len(s) \/ ~IsSpace(Char(s, e)) THEN ""
                ELSE IF Len(toks) < 2 \/ toks[1] # "to" THEN ""
                ELSE toks[2])
        hits == {p \in Spans(s, {"go", "navigate"}) : At(p[2]) # ""}
    IN  IF hits = {} THEN "" ELSE At(Leftmost(hits)[2])

FolderKinds == {"folder", "directory", "dir"}

\* the listing of the "show ... python ... file" phrase
ShowPython(f, cwd) ==
    Bind(namei(f, cwd), LAMBDA t :
    Bind(IF t.err = "" /\ f[t.path].type = "dir"
                        THEN {x \in listdir(f, t.path) : EndsWith(x, ".py")} ELSE {}, LAMBDA python_files :
        IF t.err # "" THEN Plain(f, cwd, "", ErrText(t.err, cwd), FALSE)
        ELSE IF f[t.path].type # "dir" THEN Plain(f, cwd, "", ErrText("ENOTDIR", cwd), FALSE)
        ELSE IF python_files # {} THEN Plain(f, cwd, Join(Sorted(python_files), "\n"), "", TRUE)
        ELSE Plain(f, cwd, "No Python files found in current directory", "", TRUE)))

\* the final return with "success": True
NotUnderstood_Succeeds(f, cwd, nl_command) ==
    Plain(f, cwd, "I didn't understand the command: '" \o nl_command
             \o "'\n\nTry commands like:\n- create a folder test\n- move file.txt to documents\n- show me files\n- delete temp.txt",
          "", TRUE)

\* the final return of _process_natural_language
NotUnderstood(f, cwd, nl_command) ==
    Plain(f, cwd, "I didn't understand the command: '" \o nl_command
             \o "'\n\nTry commands like:\n- create a folder test\n- move file.txt to documents\n- show me files\n- delete temp.txt",
          "", FALSE)

\* _process_natural_language with the delete block above the move block
_process_natural_language_DeleteFirst(f, cwd, text) ==
    Bind(Lower(Strip(text)), LAMBDA nl_command :
        IF CreateNamed(nl_command, FolderKinds, TRUE) # ""
        THEN Tag("_mkdir", _mkdir(f, cwd, <<CreateNamed(nl_command, FolderKinds, TRUE)>>))
        ELSE IF MakeFolder(nl_command) # ""
        THEN Tag("_mkdir", _mkdir(f, cwd, <<MakeFolder(nl_command)>>))
        ELSE IF DeleteName(nl_command) # ""
        THEN Tag("_rm", _rm(f, cwd, <<DeleteName(nl_command)>>))
        ELSE IF VerbTo(nl_command, "move") # <<>>
        THEN Tag("_mv", _mv(f, cwd, VerbTo(nl_command, "move")))
        ELSE IF VerbTo(nl_command, "copy") # <<>>
        THEN Tag("_cp", _cp(f, cwd, VerbTo(nl_command, "copy")))
        ELSE IF CreateNamed(nl_command, {"file"}, FALSE) # ""
        THEN Tag("_touch", _touch(f, cwd, <<CreateNamed(nl_command, {"file"}, FALSE)>>))
        ELSE IF Contains(nl_command, "show") /\ Contains(nl_command, "file")
        THEN (IF Contains(nl_command, "python") THEN Tag("show_python", ShowPython(f, cwd))
              ELSE Tag("_ls", _ls(f, cwd, <<>>)))
        ELSE IF GoTo(nl_command) # ""
        THEN Tag("_cd", _cd(f, cwd, <<GoTo(nl_command)>>))
        ELSE IF \E word \in {"system", "info", "stats", "performance"} : Contains(nl_command, word)
        THEN Tag("_system_info", _system_info(f, cwd))
        ELSE Tag("not_understood", NotUnderstood(f, cwd, nl_command)))

_process_natural_language(f, cwd, text) ==
    Bind(Lower(Strip(text)), LAMBDA nl_command :
        IF CreateNamed(nl_command, FolderKinds, TRUE) # ""
        THEN Tag("_mkdir", _mkdir(f, cwd, <<CreateNamed(nl_command, FolderKinds, TRUE)>>))
        ELSE IF MakeFolder(nl_command) # ""
        THEN Tag("_mkdir", _mkdir(f, cwd, <<MakeFolder(nl_command)>>))
        ELSE IF VerbTo(nl_command, "move") # <<>>
        THEN Tag("_mv", _mv(f, cwd, VerbTo(nl_command, "move")))
        ELSE IF VerbTo(nl_command, "copy") # <<>>
        THEN Tag("_cp", _cp(f, cwd, VerbTo(nl_command, "copy")))
        ELSE IF DeleteName(nl_command) # ""
        THEN Tag("_rm", _rm(f, cwd, <<DeleteName(nl_command)>>))
        ELSE IF CreateNamed(nl_command, {"file"}, FALSE) # ""
        THEN Tag("_touch", _touch(f, cwd, <<CreateNamed(nl_command, {"file"}, FALSE)>>))
        ELSE IF Contains(nl_command, "show") /\ Contains(nl_command, "file")
        THEN (IF Contains(nl_command, "python") THEN Tag("show_python", ShowPython(f, cwd))
              ELSE Tag("_ls", _ls(f, cwd, <<>>)))
        ELSE IF GoTo(nl_command) # ""
        THEN Tag("_cd", _cd(f, cwd, <<GoTo(nl_command)>>))
        ELSE IF \E word \in {"system", "info", "stats", "performance"} : Contains(nl_command, word)
        THEN Tag("_system_info", _system_info(f, cwd))
        ELSE Tag("not_understood", NotUnderstood(f, cwd, nl_command)))

-----------------------------------------------------------------------------
(* get_completions *)

\* the `commands` list of get_completions
commands ==
    <<"ls", "cd", "pwd", "mkdir", "rm", "rmdir", "cp", "mv", "cat", "touch", "echo",
      "history", "clear", "help", "sysinfo", "ps", "nl:", "natural:">>

\* the slice bound of `matches[:10]`
COMPLETIONS_MAX == 10

Reverse(seq) == [i \in 1..Len(seq) |-> seq[Len(seq) + 1 - i]]

\* os.listdir as a list.  The order is the file system's; two orders stand
\* for it, ascending and descending by name
ListedNames(f, canon, descending) ==
    IF descending THEN Reverse(Sorted(listdir(f, canon))) ELSE Sorted(listdir(f, canon))

\* the loop over os.listdir(search_dir) in the path branch
PathMatches(f, search_dir, file_part, descending) ==
    Bind(namei(f, search_dir), LAMBDA t :
    Bind(SelectSeq(ListedNames(f, t.path, descending),
                   LAMBDA item : StartsWith(item, file_part)), LAMBDA hits :
        [i \in 1..Len(hits) |->
            IF isdir(f, join(search_dir, hits[i])) THEN hits[i] \o "/" ELSE hits[i]]))

\* matches[:10] without the slice
Truncate_Whole(matches) == matches

\* matches[:10]
Truncate(matches) ==
    IF Len(matches) > COMPLETIONS_MAX THEN SubSeq(matches, 1, COMPLETIONS_MAX) ELSE matches

\* the body of the try statement in the path branch: what it returns, and
\* the exception it raises ("" for none): parts[-1] of an empty list, and
\* os.listdir of a search_dir that exists and is no directory.  When
\* search_dir does not exist the body falls through to the final return []
PathBranch(f, cwd, parts, descending) ==
    IF Len(parts) = 0 THEN [matches |-> <<>>, exc |-> "IndexError"]
    ELSE Bind(parts[Len(parts)], LAMBDA current_input :
         Bind(Split(current_input, "/"), LAMBDA pieces :
         Bind(pieces[Len(pieces)], LAMBDA file_part :
         Bind(IF Len(pieces) > 1
              THEN _safe_path(cwd, Join(SubSeq(pieces, 1, Len(pieces) - 1), "/"))
              ELSE cwd, LAMBDA search_dir :
             IF ~exists(f, search_dir) THEN [matches |-> <<>>, exc |-> ""]
             ELSE IF ~isdir(f, search_dir)
             THEN [matches |-> <<>>, exc |-> "NotADirectoryError"]
             ELSE [matches |-> Truncate(PathMatches(f, search_dir, file_part, descending)),
                   exc |-> ""]))))

\* get_completions without the bare except around the path branch
get_completions_NoExcept(f, cwd, partial_command, descending) ==
    Bind(SplitWs(partial_command), LAMBDA parts :
        IF partial_command = "" THEN [completions |-> <<>>, exc |-> ""]
        ELSE IF Len(parts) = 1
        THEN [completions |-> SelectSeq(commands, LAMBDA cmd : StartsWith(cmd, Lower(parts[1]))),
              exc |-> ""]
        ELSE Bind(PathBranch(f, cwd, parts, descending), LAMBDA b :
                 [completions |-> b.matches, exc |-> b.exc]))

\* get_completions for a string: the list it returns, and the exception
\* that leaves it ("" for none); "except: pass" swallows what the path
\* branch raises
get_completions(f, cwd, partial_command, descending) ==
    Bind(SplitWs(partial_command), LAMBDA parts :
        IF partial_command = "" THEN [completions |-> <<>>, exc |-> ""]
        ELSE IF Len(parts) = 1
        THEN [completions |-> SelectSeq(commands, LAMBDA cmd : StartsWith(cmd, Lower(parts[1]))),
              exc |-> ""]
        ELSE Bind(PathBranch(f, cwd, parts, descending), LAMBDA b :
                 [completions |-> IF b.exc # "" THEN <<>> ELSE b.matches, exc |-> ""]))

-----------------------------------------------------------------------------
(* execute_command and the socket handler that calls it.  A request value  *)
(* is what the client put under 'command': a string, or a JSON value of    *)
(* another type.                                                           *)

Str(text) == [isstr |-> TRUE, text |-> text]

\* a JSON null: type(None).__name__
NotAString == [isstr |-> FALSE, text |-> "NoneType"]

HISTORY_MAX == 1000

\* "Add to history" without the pop(0)
RecordHistory_NoEviction(history, command) ==
    IF Strip(command) # "" /\ (Len(history) = 0 \/ history[Len(history)] # command)
    THEN Append(history, command)
    ELSE history

\* "Add to history" with `command not in self.command_history` as its test
RecordHistory_DedupAll(history, command) ==
    IF Strip(command) # "" /\ command \notin Range(history)
    THEN Bind(Append(history, command), LAMBDA h :
             IF Len(h) > HISTORY_MAX THEN Tail(h) ELSE h)
    ELSE history

\* "Add to history"
\* the history step recording the line without the white space around it
RecordHistory_Stripped(history, command) ==
    IF Strip(command) # "" /\ (Len(history) = 0 \/ history[Len(history)] # Strip(command))
    THEN Bind(Append(history, Strip(command)), LAMBDA h :
             IF Len(h) > HISTORY_MAX THEN Tail(h) ELSE h)
    ELSE history

\* the history step without the test for a blank line
RecordHistory_Blank(history, command) ==
    IF command # "" /\ (Len(history) = 0 \/ history[Len(history)] # command)
    THEN Bind(Append(history, command), LAMBDA h :
             IF Len(h) > HISTORY_MAX THEN Tail(h) ELSE h)
    ELSE history

RecordHistory(history, command) ==
    IF Strip(command) # "" /\ (Len(history) = 0 \/ history[Len(history)] # command)
    THEN Bind(Append(history, command), LAMBDA h :
             IF Len(h) > HISTORY_MAX THEN Tail(h) ELSE h)
    ELSE history

aliases == << <<"ll", "ls -la">>, <<"la", "ls -a">>, <<"clear", "clear">> >>

\* "Handle aliases": the loop over self.aliases.items(), from the i-th on
RECURSIVE ExpandFrom(_, _)
ExpandFrom(command, i) ==
    IF i > Len(aliases) THEN command
    ELSE ExpandFrom(IF StartsWith(command, aliases[i][1])
                    THEN aliases[i][2] \o Slice(command, Len(aliases[i][1]) + 1)
                    ELSE command,
                    i + 1)

\* aliases applied to a line whose first word is the alias
ExpandAliases_WholeWord(command) ==
    Bind(SplitWs(command), LAMBDA parts :
        IF Len(parts) > 0 /\ \E i \in DOMAIN aliases : aliases[i][1] = parts[1]
        THEN ExpandFrom(command, 1)
        ELSE command)

ExpandAliases(command) == ExpandFrom(command, 1)

\* the message of the final else without the command in it
NotAllowed_Unnamed(cmd) ==
    "Command not allowed in web environment. Use built-in commands or natural language."

\* the message of the final else of execute_command
NotAllowed(cmd) ==
    "Command '" \o cmd \o "' not allowed in web environment. Use built-in commands or natural language."

\* "Parse command" and "Handle built-in commands", for the expanded command
Dispatch(f, cwd, history, command) ==
    Bind(SplitWs(Strip(command)), LAMBDA parts :
    Bind(Lower(parts[1]), LAMBDA cmd :
    Bind(Tail(parts), LAMBDA args :
        IF Len(parts) = 0 THEN Tag("blank", Plain(f, cwd, "", "", TRUE))
        ELSE CASE cmd = "pwd" -> Tag("_pwd", _pwd(f, cwd))
               [] cmd = "ls" -> Tag("_ls", _ls(f, cwd, args))
               [] cmd = "cd" -> Tag("_cd", _cd(f, cwd, args))
               [] cmd = "mkdir" -> Tag("_mkdir", _mkdir(f, cwd, args))
               [] cmd = "rm" -> Tag("_rm", _rm(f, cwd, args))
               [] cmd = "rmdir" -> Tag("_rmdir", _rmdir(f, cwd, args))
               [] cmd = "cp" -> Tag("_cp", _cp(f, cwd, args))
               [] cmd = "mv" -> Tag("_mv", _mv(f, cwd, args))
               [] cmd = "cat" -> Tag("_cat", _cat(f, cwd, args))
               [] cmd = "touch" -> Tag("_touch", _touch(f, cwd, args))
               [] cmd = "echo" -> Tag("_echo", _echo(f, cwd, args))
               [] cmd = "history" -> Tag("_history", _history(f, cwd, history))
               [] cmd = "clear" -> Tag("clear", Plain(f, cwd, "CLEAR_SCREEN", "", TRUE))
               [] cmd \in {"sysinfo", "system"} -> Tag("_system_info", _system_info(f, cwd))
               [] cmd = "ps" -> Tag("_process_list", _process_list(f, cwd))
               [] cmd = "help" -> Tag("_help", _help(f, cwd))
               [] StartsWith(cmd, "nl:") -> _process_natural_language(f, cwd, Slice(command, 4))
               [] StartsWith(cmd, "natural:") -> _process_natural_language(f, cwd, Slice(command, 9))
               [] OTHER -> Tag("not_allowed", Plain(f, cwd, "", NotAllowed(cmd), FALSE)))))

\* what a call of execute_command leaves: the handler's outcome r, the
\* history, the exception that is leaving the call ("" for none) and
\* whether the except clause produced the result
Outcome(r, history, exc, caught) ==
    [fs |-> r.fs, cwd |-> r.cwd, history |-> history,
     output |-> r.output, error |-> r.error, success |-> r.success,
     n |-> r.n, errors |-> r.errors, handler |-> r.handler,
     exc |-> exc, caught |-> caught]

\* the try block with the line recorded once the command has run
TryBlock_RecordsLast(f, cwd, history, command) ==
    IF ~command.isstr
    THEN Outcome(Plain(f, cwd, "", "", FALSE), history,
                 "'" \o command.text \o "' object has no attribute 'strip'", FALSE)
    ELSE Bind(RecordHistory(history, command.text), LAMBDA h :
             Outcome(Dispatch(f, cwd, history, ExpandAliases(command.text)), h, "", FALSE))

\* the try block of execute_command
TryBlock(f, cwd, history, command) ==
    IF ~command.isstr
    THEN Outcome(Plain(f, cwd, "", "", FALSE), history,
                 "'" \o command.text \o "' object has no attribute 'strip'", FALSE)
    ELSE Bind(RecordHistory(history, command.text), LAMBDA h :
             Outcome(Dispatch(f, cwd, h, ExpandAliases(command.text)), h, "", FALSE))

\* execute_command without its except clause
execute_command_NoExcept(f, cwd, history, command) == TryBlock(f, cwd, history, command)

\* execute_command: the try block, and "except Exception as e"
execute_command(f, cwd, history, command) ==
    Bind(TryBlock(f, cwd, history, command), LAMBDA b :
        IF b.exc # ""
        THEN [b EXCEPT !.output = "", !.error = "Error: " \o b.exc, !.success = FALSE,
                       !.exc = "", !.caught = TRUE]
        ELSE b)

\* the command_result event handle_command emits (its 'cwd' field is
\* current_directory)
Emitted(r) ==
    IF r.exc = "" THEN [output |-> r.output, error |-> r.error, success |-> r.success]
    ELSE [output |-> "", error |-> "Server error: " \o r.exc, success |-> FALSE]

\* the global `terminal`: every client's handlers read and write this one
\* instance
ObservedCwd(client) == current_directory

ObservedHistory(client) == command_history

-----------------------------------------------------------------------------
(* The bounds of the model *)

\* the number of client connections
NumClients == 2

\* the number of entries the history of a session of Spec grows to
MaxCommands == 2

Clients == 1..NumClients

\* a handler thread that is not inside execute_command
IdleThread == [pc |-> "idle", command |-> "", calls |-> 0, before |-> 0, recorded |-> FALSE]

\* no handler is running and no history_result has been emitted
NoThreads ==
    /\ threads = [t \in Clients |-> IdleThread]
    /\ history_result = <<>>

\* the command lines the clients of Spec send
Lines ==
    { "cd a", "cd /x/..", "cd f", "nl: go to a",
      "mkdir a", "mkdir a a", "mkdir ../terminal_workspace2",
      "touch f", "rm f zz", "rmdir a zz", "cp f zz g", "mv f zz g",
      "FOO bar", "llama", "  " }

\* the command lines of SpecHistory: they leave the file system alone
HistoryLines == {"pwd", "echo hi", "  "}

Requests(lines) == {Str(l) : l \in lines} \cup {NotAString}

\* the current directories and the paths of SpecSafePath
ConfinedCwds == {base_directory, base_directory \o "/a", base_directory \o "/a/b"}

PathRoots == {"", "/", "/x/", "../", base_directory \o "/", base_directory \o "2/"}

PathSegments == {"", ".", "..", "a", "terminal_workspace2"}

PathInputs ==
    {root \o s1 \o "/" \o s2 : root \in PathRoots, s1 \in PathSegments, s2 \in PathSegments}
    \cup {root \o s1 : root \in PathRoots, s1 \in PathSegments}

-----------------------------------------------------------------------------

\* the file system TerminalEmulator() leaves at import: the workspace exists,
\* in a /tmp that holds another user's file
InitFs ==
    [q \in {"/", "/tmp", base_directory, "/tmp/other.txt"} |->
        IF q = "/tmp/other.txt" THEN FileNode("secret") ELSE DirNode]

Init ==
    /\ fs = InitFs
    /\ current_directory = base_directory
    /\ command_history = <<>>
    /\ result = [output |-> "", error |-> "", success |-> TRUE]
    /\ completions = <<>>
    /\ NoThreads
    /\ last = [client |-> 0, command |-> Str(""), handler |-> "", n |-> 0,
               errors |-> <<>>, caught |-> FALSE, escaped |-> FALSE,
               before |-> 0, recorded |-> FALSE]

\* @socketio.on('execute_command'): the event {'command': command} arrives
\* from any one of the connected clients
handle_command(command) ==
    \E r \in {execute_command(fs, current_directory, command_history, command)} :
        \E client \in Clients :
            /\ fs' = r.fs
            /\ current_directory' = r.cwd
            /\ command_history' = r.history
            /\ result' = Emitted(r)
            /\ last' = [client |-> client, command |-> command, handler |-> r.handler,
                        n |-> r.n, errors |-> r.errors, caught |-> r.caught,
                        escaped |-> r.exc # "",
                        before |-> Len(command_history),
                        recorded |-> r.history # command_history]
            /\ UNCHANGED <<completions, threads, history_result>>

\* @socketio.on('get_completions'): the event {'partial_command': ...}.  A
\* None is answered by the first return of get_completions; an exception
\* that leaves get_completions is answered by [] (last.escaped records it)
handle_completions(partial_command) ==
    \E descending \in BOOLEAN :
    \E r \in {IF partial_command.isstr
              THEN get_completions(fs, current_directory, partial_command.text, descending)
              ELSE [completions |-> <<>>, exc |-> ""]} :
        /\ completions' = IF r.exc # "" THEN <<>> ELSE r.completions
        /\ last' = [last EXCEPT !.command = partial_command, !.handler = "get_completions",
                                !.escaped = r.exc # ""]
        /\ UNCHANGED <<fs, current_directory, command_history, result, threads, history_result>>

\* a session of at most MaxCommands recorded commands
Next ==
    \E command \in Requests(Lines) :
        /\ command.isstr => Len(RecordHistory(command_history, command.text)) <= MaxCommands
        /\ handle_command(command)

Spec == Init /\ [][Next]_vars

\* sessions of any length over the lines that only read
NextHistory == \E command \in Requests(HistoryLines) : handle_command(command)

SpecHistory == Init /\ [][NextHistory]_vars

\* _safe_path alone: a session whose current directory is any confined
\* directory, and one call of _safe_path on any of the paths
InitSafePath ==
    /\ fs = InitFs
    /\ current_directory \in ConfinedCwds
    /\ command_history = <<>>
    /\ result = [output |-> "", error |-> "", success |-> TRUE]
    /\ completions = <<>>
    /\ NoThreads
    /\ last = [client |-> 0, command |-> Str(""), handler |-> "", n |-> 0,
               errors |-> <<>>, caught |-> FALSE, escaped |-> FALSE,
               before |-> 0, recorded |-> FALSE]

\* a call self._safe_path(path); result.output holds what it returns
safe_path_call(path) ==
    /\ result' = [output |-> _safe_path(current_directory, path), error |-> "",
                  success |-> TRUE]
    /\ last' = [last EXCEPT !.command = Str(path), !.handler = "_safe_path"]
    /\ UNCHANGED <<fs, current_directory, command_history, completions, threads, history_result>>

NextSafePath == \E path \in PathInputs : safe_path_call(path)

SpecSafePath == InitSafePath /\ [][NextSafePath]_vars

\* a session over `lines` of at most `most` recorded commands
Session(lines, most) ==
    \E command \in Requests(lines) :
        /\ command.isstr => Len(RecordHistory(command_history, command.text)) <= most
        /\ handle_command(command)

\* the workspace a restarted server finds: /tmp outlives the process, and
\* __init__ keeps what the directory holds (exist_ok=True)
SeededFs ==
    [q \in {"/", "/tmp", base_directory, base_directory \o "/x.txt",
            base_directory \o "/y.txt", "/tmp/other.txt"} |->
        CASE q = base_directory \o "/x.txt" -> FileNode("ab")
          [] q = base_directory \o "/y.txt" -> FileNode("cd")
          [] q = "/tmp/other.txt" -> FileNode("secret")
          [] OTHER -> DirNode]

InitSeeded ==
    /\ fs = SeededFs
    /\ current_directory = base_directory
    /\ command_history = <<>>
    /\ result = [output |-> "", error |-> "", success |-> TRUE]
    /\ completions = <<>>
    /\ NoThreads
    /\ last = [client |-> 0, command |-> Str(""), handler |-> "", n |-> 0,
               errors |-> <<>>, caught |-> FALSE, escaped |-> FALSE,
               before |-> 0, recorded |-> FALSE]

\* removing and making directories in a workspace that holds two files
RemoveLines ==
    { "rm nofile", "rm -f nofile", "rm -rf nofile", "rm -f x.txt/z", "rm x.txt nofile",
      "mkdir dup", "mkdir dup new", "mkdir -p a/b", "mkdir -p x.txt" }

SpecRemove == InitSeeded /\ [][Session(RemoveLines, MaxCommands)]_vars

\* creating and reading files in a workspace that holds two files
ReadLines ==
    { "touch new", "touch x.txt", "touch zz/f", "mkdir dup",
      "cat x.txt y.txt", "cat y.txt nofile x.txt dup", "cat x.txt/z new" }

SpecRead == InitSeeded /\ [][Session(ReadLines, MaxCommands)]_vars

\* making a nested directory, entering it and asking where one is: sessions
\* one command longer than those of Spec
PwdLines == {"mkdir -p a/b/c", "cd a/b/c", "mkdir -p d/e", "cd d/e", "cd /x/..", "pwd"}

SpecPwd == Init /\ [][Session(PwdLines, MaxCommands + 1)]_vars

\* intent phrases, and the typed commands they stand for
IntentLines ==
    { "nl: create a folder called demo", "nl: create a folder called named",
      "touch demo",
      "nl: move demo to b and delete b", "nl: remove demo to b",
      "nl: show files then go to demo", "natural: delete system",
      "nl: hello world" }

SpecIntent == Init /\ [][Session(IntentLines, MaxCommands)]_vars

\* the histories sessions of pwd and echo build: no line twice in a row
MaxHistory == 60

HistoryOf(n, first) == [i \in 1..n |-> IF (i % 2 = 1) = first THEN "pwd" ELSE "echo hi"]

InitListing ==
    /\ fs = InitFs
    /\ current_directory = base_directory
    /\ command_history \in
           {HistoryOf(n, first) : n \in (0..MaxHistory) \cup {HISTORY_MAX - 1, HISTORY_MAX},
                                  first \in BOOLEAN}
    /\ result = [output |-> "", error |-> "", success |-> TRUE]
    /\ completions = <<>>
    /\ NoThreads
    /\ last = [client |-> 0, command |-> Str(""), handler |-> "", n |-> 0,
               errors |-> <<>>, caught |-> FALSE, escaped |-> FALSE,
               before |-> 0, recorded |-> FALSE]

\* the history command at the end of such a session, in either spelling,
\* and lines that are rewritten, unknown or fail
ListingLines == {"history", "HISTORY  ", "llama", "FOO bar"}

\* at most MaxCommands of these lines are recorded after the session
list_history ==
    \E command \in Requests(ListingLines) :
        /\ command.isstr =>
               Cardinality({i \in DOMAIN RecordHistory(command_history, command.text) :
                   RecordHistory(command_history, command.text)[i] \in ListingLines})
                   <= MaxCommands
        /\ handle_command(command)

SpecListing == InitListing /\ [][list_history]_vars

\* lines that open with an alias, hold one further in, or only resemble one
AliasLines == {"ll", "la", "llama", "clear", "lall x.txt", " ll", "ls ll", "LL"}

SpecAlias == InitSeeded /\ [][Session(AliasLines, MaxCommands)]_vars

\* copies and moves of the seeded files and of a directory made on the way
CopyMoveLines ==
    { "mkdir d", "mv x.txt z", "mv x.txt d", "mv nofile z", "mv x.txt x.txt",
      "mv x.txt y.txt z", "cp x.txt z", "cp x.txt d", "cp d z", "cp -r d z",
      "cp -r d d", "cp x.txt y.txt z" }

SpecCopyMove == InitSeeded /\ [][Session(CopyMoveLines, MaxCommands)]_vars

\* removals of directories: empty and not, with and without -r, and of
\* names that are no directory
PruneLines ==
    { "mkdir -p a/b", "rm a", "rm -f a", "rm -r a", "rm -rf a/b a", "rm -r /x/..",
      "rmdir a", "rmdir a/b x.txt a", "rmdir x.txt nofile", "rmdir /x/.." }

SpecPrune == InitSeeded /\ [][Session(PruneLines, MaxCommands)]_vars

\* completion requests against a directory of more entries than a reply holds
CompleteLines == {"mkdir a0", "cd a0"}

\* a workspace a restarted server finds with eleven files in it
CrowdedNames == {"a1", "a2", "a3", "a4", "a5", "a6", "a7", "a8", "a9", "b1", "b2"}

CrowdedFs ==
    [q \in {"/", "/tmp", base_directory} \cup {base_directory \o "/" \o x : x \in CrowdedNames} |->
        IF q \in {"/", "/tmp", base_directory} THEN DirNode ELSE FileNode("")]

InitCrowded ==
    /\ fs = CrowdedFs
    /\ current_directory = base_directory
    /\ command_history = <<>>
    /\ result = [output |-> "", error |-> "", success |-> TRUE]
    /\ completions = <<>>
    /\ NoThreads
    /\ last = [client |-> 0, command |-> Str(""), handler |-> "", n |-> 0,
               errors |-> <<>>, caught |-> FALSE, escaped |-> FALSE,
               before |-> 0, recorded |-> FALSE]

Partials ==
    { "", "  ", "m", "s", "C", "cat a", "cat ./", "ls a0/", "cat zz/a", "cat a1/x" }

NextComplete ==
    \/ Session(CompleteLines, MaxCommands)
    \/ \E partial_command \in Requests(Partials) : handle_completions(partial_command)

SpecComplete == InitCrowded /\ [][NextComplete]_vars

\* removals and moves aimed at the root and at the directory the session is in
AdriftLines ==
    { "mkdir a", "cd a", "rmdir ../a", "rm -r ../a", "mv ../a ../b",
      "rmdir ..", "rm -r ..", "rm -rf /", "mv .. b" }

SpecAdrift == Init /\ [][Session(AdriftLines, MaxCommands + 1)]_vars

\* a used workspace that also holds the directory d
InitFrame ==
    /\ fs = With(SeededFs, base_directory \o "/d", DirNode)
    /\ current_directory = base_directory
    /\ command_history = <<>>
    /\ result = [output |-> "", error |-> "", success |-> TRUE]
    /\ completions = <<>>
    /\ NoThreads
    /\ last = [client |-> 0, command |-> Str(""), handler |-> "", n |-> 0,
               errors |-> <<>>, caught |-> FALSE, escaped |-> FALSE,
               before |-> 0, recorded |-> FALSE]

\* every built-in once, and cd typed and through the go intent
FrameLines ==
    { "cd d", "nl: go to d",
      "pwd", "ls", "cat x.txt", "echo hi", "history", "clear", "help", "ps",
      "sysinfo", "system", "mkdir n", "rm x.txt", "rmdir d", "cp x.txt c",
      "mv y.txt m", "touch t" }

SpecFrame == InitFrame /\ [][Session(FrameLines, MaxCommands)]_vars

\* cd in its forms, and blank lines
CdLines == {"cd d", "cd", "cd ..", "cd /x/..", "cd x.txt", "CD d/ x.txt", "pwd", "", "  "}

SpecCd == InitFrame /\ [][Session(CdLines, MaxCommands)]_vars

\* the longest entry name, the most entries and the most characters of
\* entry names a listing is tried with
MaxNameLen == 82

MaxEntries == 12

MaxChars == 90

\* the first characters of the entry names, one for each entry
NameHeads == "0123456789ABCDEFGHIJKLMNOPQRSTUVWXYZ"

RECURSIVE Repeat(_, _)
Repeat(c, n) == IF n <= 0 THEN "" ELSE c \o Repeat(c, n - 1)

\* the i-th entry name, `len` characters long
NameOf(i, len) == SubSeq(NameHeads, i, i) \o Repeat("x", len - 1)

\* a workspace of n entries with names of w characters: files, or files and
\* a directory, which is the last of them
ColumnsFs(w, n, dirs) ==
    [q \in {"/", "/tmp", base_directory}
           \cup {base_directory \o "/" \o NameOf(i, w) : i \in 1..n} |->
        IF q \in {"/", "/tmp", base_directory} \/ (dirs /\ q = base_directory \o "/" \o NameOf(n, w))
        THEN DirNode ELSE FileNode("")]

InitColumns ==
    /\ \E w \in 1..MaxNameLen : \E n \in 1..MaxEntries : \E dirs \in BOOLEAN :
           /\ w * n <= MaxChars
           /\ fs = ColumnsFs(w, n, dirs)
    /\ current_directory = base_directory
    /\ command_history = <<>>
    /\ result = [output |-> "", error |-> "", success |-> TRUE]
    /\ completions = <<>>
    /\ NoThreads
    /\ last = [client |-> 0, command |-> Str(""), handler |-> "", n |-> 0,
               errors |-> <<>>, caught |-> FALSE, escaped |-> FALSE,
               before |-> 0, recorded |-> FALSE]

ColumnsLines == {"ls"}

SpecColumns == InitColumns /\ [][Session(ColumnsLines, MaxCommands - 1)]_vars

\* a used workspace with hidden entries, in it and in its directory d
HiddenFs ==
    [q \in DOMAIN SeededFs \cup {base_directory \o x : x \in {"/d", "/.h", "/.k", "/d/.g", "/d/z"}} |->
        IF q \in DOMAIN SeededFs THEN SeededFs[q]
        ELSE IF q \in {base_directory \o "/d", base_directory \o "/.k"} THEN DirNode
        ELSE FileNode("")]

InitHidden ==
    /\ fs = HiddenFs
    /\ current_directory = base_directory
    /\ command_history = <<>>
    /\ result = [output |-> "", error |-> "", success |-> TRUE]
    /\ completions = <<>>
    /\ NoThreads
    /\ last = [client |-> 0, command |-> Str(""), handler |-> "", n |-> 0,
               errors |-> <<>>, caught |-> FALSE, escaped |-> FALSE,
               before |-> 0, recorded |-> FALSE]

\* ls with and without the flags that show hidden entries
HiddenLines ==
    { "ls", "ls -a", "ls -l", "ls -la", "ls -al", "ls -lart", "ls d", "ls d -a", "ls x.txt" }

SpecHidden == InitHidden /\ [][Session(HiddenLines, MaxCommands)]_vars

-----------------------------------------------------------------------------
(* The handlers on concurrent threads: async_mode='threading' runs every
   event in a thread of its own, and nothing locks the one terminal.  A
   thread inside execute_command can be suspended between two statements. *)

\* the execute_command calls begun so far by the threads of S
RECURSIVE Started(_)
Started(S) ==
    IF S = {} THEN 0
    ELSE Bind(CHOOSE t \in S : TRUE, LAMBDA t : threads[t].calls + Started(S \ {t}))

\* handle_command up to the append: the test of the line against the last
\* entry, and command_history.append(command)
execute_command_append(t, command) ==
    /\ threads[t].pc = "idle"
    /\ Started(Clients) < MaxCommands
    /\ \E recorded \in {Strip(command) # "" /\ (Len(command_history) = 0
                           \/ command_history[Len(command_history)] # command)} :
           /\ command_history' = IF recorded THEN Append(command_history, command)
                                 ELSE command_history
           /\ threads' = [threads EXCEPT ![t] =
                             [pc |-> IF recorded THEN "appended" ELSE "dispatch",
                              command |-> command, calls |-> @.calls + 1,
                              before |-> Len(command_history), recorded |-> recorded]]
    /\ UNCHANGED <<fs, current_directory, result, completions, last, history_result>>

\* if len(self.command_history) > 1000
execute_command_len(t) ==
    /\ threads[t].pc = "appended"
    /\ threads' = [threads EXCEPT ![t].pc =
                      IF Len(command_history) > HISTORY_MAX THEN "evict" ELSE "dispatch"]
    /\ UNCHANGED <<fs, current_directory, command_history, result, completions, last,
                   history_result>>

\* self.command_history.pop(0)
execute_command_pop(t) ==
    /\ threads[t].pc = "evict"
    /\ command_history' = Tail(command_history)
    /\ threads' = [threads EXCEPT ![t].pc = "dispatch"]
    /\ UNCHANGED <<fs, current_directory, result, completions, last, history_result>>

\* the rest of execute_command, and the command_result event
execute_command_dispatch(t) ==
    /\ threads[t].pc = "dispatch"
    /\ \E r \in {Outcome(Dispatch(fs, current_directory, command_history,
                                  ExpandAliases(threads[t].command)),
                         command_history, "", FALSE)} :
           /\ fs' = r.fs
           /\ current_directory' = r.cwd
           /\ result' = Emitted(r)
           /\ last' = [client |-> t, command |-> Str(threads[t].command),
                       handler |-> r.handler, n |-> r.n, errors |-> r.errors,
                       caught |-> r.caught, escaped |-> FALSE,
                       before |-> threads[t].before, recorded |-> threads[t].recorded]
    /\ threads' = [threads EXCEPT ![t].pc = "idle"]
    /\ UNCHANGED <<command_history, completions, history_result>>

\* emit('history_result', {'history': terminal.command_history})
handle_history(t) ==
    /\ threads[t].pc = "idle"
    /\ history_result' = command_history
    /\ UNCHANGED <<fs, current_directory, command_history, result, completions, last, threads>>

\* a log one entry short of full, or full
InitThreads ==
    /\ fs = SeededFs
    /\ current_directory = base_directory
    /\ command_history \in {HistoryOf(n, first) : n \in {HISTORY_MAX - 1, HISTORY_MAX},
                                                  first \in BOOLEAN}
    /\ result = [output |-> "", error |-> "", success |-> TRUE]
    /\ completions = <<>>
    /\ NoThreads
    /\ last = [client |-> 0, command |-> Str(""), handler |-> "", n |-> 0,
               errors |-> <<>>, caught |-> FALSE, escaped |-> FALSE,
               before |-> 0, recorded |-> FALSE]

ThreadLines == {"ls", "pwd"}

NextThreads ==
    \E t \in Clients :
        \/ \E command \in ThreadLines : execute_command_append(t, command)
        \/ execute_command_len(t)
        \/ execute_command_pop(t)
        \/ execute_command_dispatch(t)
        \/ handle_history(t)

SpecThreads == InitThreads /\ [][NextThreads]_vars

\* one command of every kind, in a workspace as a start may find it
ResultLines ==
    { "pwd", "ls", "ls -l x.txt", "ls zz", "cd zz", "cd", "mkdir x.txt", "mkdir n",
      "rm zz x.txt", "rmdir zz", "cp x.txt", "cp zz x.txt n", "mv zz n",
      "cat x.txt", "cat zz", "cat x.txt zz y.txt", "cat a1 zz", "touch n", "echo hi",
      "history", "clear", "sysinfo", "ps", "help",
      "nl: delete zz", "nl: show python files", "nl: hello", "FOO", "  " }

InitResult ==
    /\ fs \in {InitFs, SeededFs, CrowdedFs}
    /\ current_directory = base_directory
    /\ command_history = <<>>
    /\ result = [output |-> "", error |-> "", success |-> TRUE]
    /\ completions = <<>>
    /\ NoThreads
    /\ last = [client |-> 0, command |-> Str(""), handler |-> "", n |-> 0,
               errors |-> <<>>, caught |-> FALSE, escaped |-> FALSE,
               before |-> 0, recorded |-> FALSE]

SpecResult == InitResult /\ [][Session(ResultLines, MaxCommands - 1)]_vars

-----------------------------------------------------------------------------
(* Vocabulary of the properties *)

\* p is the workspace root or lies beneath it, by path components, once its
\* "." and ".." segments are resolved
Confined(p) == Beneath(normpath(p), base_directory)

\* the first word of a request's line; "" when there is none
CommandName(command) ==
    IF ~command.isstr THEN ""
    ELSE Bind(SplitWs(command.text), LAMBDA parts : IF Len(parts) > 0 THEN parts[1] ELSE "")

\* the names execute_command dispatches to a built-in
Builtins ==
    {"pwd", "ls", "cd", "mkdir", "rm", "rmdir", "cp", "mv", "cat", "touch", "echo",
     "history", "clear", "sysinfo", "system", "ps", "help"}

AliasNames == {aliases[i][1] : i \in DOMAIN aliases}

\* the name is no built-in, no alias and opens with no intent prefix
UnknownName(name) ==
    /\ name # ""
    /\ Lower(name) \notin Builtins
    /\ name \notin AliasNames
    /\ ~StartsWith(Lower(name), "nl:")
    /\ ~StartsWith(Lower(name), "natural:")

\* the step refused the command `name` and touched nothing
Rejects(name) ==
    /\ ~result'.success
    /\ Contains(result'.error, "'" \o Lower(name) \o "'")
    /\ fs' = fs
    /\ current_directory' = current_directory

\* the path of a line `cd <path>`; "" for any other request
CdTarget(command) ==
    IF ~command.isstr THEN ""
    ELSE Bind(SplitWs(command.text), LAMBDA parts :
             IF Len(parts) >= 2 /\ Lower(parts[1]) = "cd" THEN parts[2] ELSE "")

-----------------------------------------------------------------------------
(* Path confinement *)

\* C1: for every path p and every current directory that is the workspace
\* root or a descendant of it, _safe_path(p) returns the workspace root or a
\* descendant of it, by path components after "." and ".." are resolved.
C1_SafePathConfined == last.handler = "_safe_path" => Confined(result.output)

\* C2: in every state reachable from a fresh session by execute calls,
\* current_directory is the workspace root or a directory inside it.
C2_CwdConfined == Confined(current_directory)

\* C3: no sequence of execute calls creates, removes or modifies an entry
\* outside the workspace root, and no call returns the listing or the
\* contents of one.
C3_OutsideUntouched ==
    /\ \A q \in DOMAIN fs \cup DOMAIN InitFs :
           ~Beneath(q, base_directory) =>
               q \in DOMAIN fs /\ q \in DOMAIN InitFs /\ fs[q] = InitFs[q]
    /\ last.handler \in {"_ls", "_cat"} =>
           ~Contains(result.output, "other.txt") /\ ~Contains(result.output, "secret")

-----------------------------------------------------------------------------
(* Sessions *)

\* C4: a command executed for one client connection never changes the
\* current directory or the history another client connection observes.
C4_SessionsIsolated ==
    [][\A c \in Clients :
           c # last'.client =>
               /\ ObservedCwd(c)' = ObservedCwd(c)
               /\ ObservedHistory(c)' = ObservedHistory(c)]_vars

-----------------------------------------------------------------------------
(* Multi-target commands *)

\* C5 as the spec states it: for each of mkdir, rm, rmdir, cp and mv with
\* N >= 1 targets of which K gave an error, success = (K < N) and error is the
\* K messages joined by newlines.
C5_SuccessUnlessAllFail ==
    (last.handler \in {"_mkdir", "_rm", "_rmdir", "_cp", "_mv"} /\ last.n >= 1) =>
        /\ result.success = (Len(last.errors) < last.n)
        /\ result.error = Join(last.errors, "\n")

\* C5: for rm, cp and mv with N >= 1 targets of which K gave an error,
\* success = (K < N); for mkdir and rmdir, success = (K = 0); in all five,
\* error is the K messages joined by newlines.
C5_PartialFailure ==
    (last.handler \in {"_mkdir", "_rm", "_rmdir", "_cp", "_mv"} /\ last.n >= 1) =>
        /\ last.handler \in {"_rm", "_cp", "_mv"} =>
               result.success = (Len(last.errors) < last.n)
        /\ last.handler \in {"_mkdir", "_rmdir"} =>
               result.success = (Len(last.errors) = 0)
        /\ result.error = Join(last.errors, "\n")

\* rm of two targets, one of them missing: reported as a success
C5_Witness ==
    /\ last.handler = "_rm"
    /\ last.n = 2
    /\ Len(last.errors) = 1
    /\ result.success

-----------------------------------------------------------------------------
(* History *)

\* the append that finds the history full evicts exactly its oldest entry
C6_Eviction ==
    (Len(command_history) = HISTORY_MAX /\ command_history' # command_history) =>
        command_history' = Append(Tail(command_history), last'.command.text)

\* C6: the history never holds more than 1000 entries; an append that would
\* make it 1001 evicts exactly the oldest entry and keeps the order of the rest.
C6_HistoryBounded ==
    /\ [](Len(command_history) <= HISTORY_MAX)
    /\ [][C6_Eviction]_vars

\* a line was appended to a full history
C6_Witness ==
    /\ last.before = HISTORY_MAX
    /\ last.recorded
    /\ Len(command_history) = HISTORY_MAX

\* a line equal to the most recent entry leaves the history as it is
C7_DuplicateSkipped ==
    (/\ last'.command.isstr
     /\ Len(command_history) > 0
     /\ last'.command.text = command_history[Len(command_history)]) =>
        command_history' = command_history

\* the line of the step became the most recent entry
C7_Appended ==
    /\ command_history' # command_history
    /\ command_history'[Len(command_history')] = last'.command.text
    /\ \/ command_history' = Append(command_history, last'.command.text)
       \/ command_history' = Append(Tail(command_history), last'.command.text)

C7_Differs ==
    /\ last'.command.isstr
    /\ \/ Len(command_history) = 0
       \/ last'.command.text # command_history[Len(command_history)]

C7_NoAdjacent ==
    \A i \in 1..(Len(command_history) - 1) : command_history[i] # command_history[i + 1]

\* C7 as the spec states it: a line equal to the most recent entry is not
\* appended, no two adjacent entries are equal, and a line that differs from
\* the most recent entry is appended even if it occurs earlier.
C7_EveryOtherLineAppended ==
    /\ []C7_NoAdjacent
    /\ [][C7_DuplicateSkipped /\ (C7_Differs => C7_Appended)]_vars

\* C7: a line equal to the most recent entry is not appended, no two adjacent
\* entries are equal, and a line that is not blank and differs from the most
\* recent entry is appended even if it occurs earlier.
C7_NoAdjacentDuplicates ==
    /\ []C7_NoAdjacent
    /\ [][/\ C7_DuplicateSkipped
          /\ (C7_Differs /\ Strip(last'.command.text) # "") => C7_Appended]_vars

\* a line was appended that the history already held two entries back
C7_Witness ==
    /\ last.recorded
    /\ Len(command_history) >= 3
    /\ command_history[Len(command_history)] = command_history[Len(command_history) - 2]

-----------------------------------------------------------------------------
(* Errors *)

\* cd to a target that is missing or no directory fails and changes nothing
C8_FailedCd ==
    \A target \in {CdTarget(last'.command)} :
        target # "" =>
            \A new_path \in {_safe_path(current_directory, target)} :
                \A missing \in {~exists(fs, new_path)} :
                    (missing \/ ~isdir(fs, new_path)) =>
                        /\ result' = [output |-> "",
                                      error |-> "cd: " \o target \o
                                                (IF missing THEN ": No such file or directory"
                                                 ELSE ": Not a directory"),
                                      success |-> FALSE]
                        /\ current_directory' = current_directory
                        /\ fs' = fs

\* the failing cd, sent again, gives the same result
C8_FailedCdAgain ==
    (/\ last.handler = "_cd"
     /\ ~result.success
     /\ last'.command = last.command) =>
        /\ result' = result
        /\ current_directory' = current_directory
        /\ fs' = fs

\* C8: when the resolved target of cd does not exist or is not a directory,
\* cd returns success = false with a 'No such file or directory' or 'Not a
\* directory' error, current_directory and the file system are as before the
\* call, and repeating the failing cd gives the same result.
C8_FailedCdKeepsState == [][C8_FailedCd /\ C8_FailedCdAgain]_vars

\* cd to a regular file was refused
C8_Witness ==
    /\ last.handler = "_cd"
    /\ CdTarget(last.command) = "f"
    /\ result = [output |-> "", error |-> "cd: f: Not a directory", success |-> FALSE]

\* C9: every execute call returns a CommandResult with the fields output,
\* error and success; a fault raised inside it becomes success = false with
\* error 'Error: <details>' and never leaves execute.
C9_ExecuteNeverRaises ==
    /\ ~last.escaped
    /\ DOMAIN result = {"output", "error", "success"}
    /\ result.success \in BOOLEAN
    /\ last.caught =>
           /\ ~result.success
           /\ result.output = ""
           /\ StartsWith(result.error, "Error: ")
           /\ Len(result.error) > Len("Error: ")

\* a request whose command is no string was answered by the except clause
C9_Witness ==
    /\ last.caught
    /\ ~last.command.isstr
    /\ result.error = "Error: 'NoneType' object has no attribute 'strip'"

\* C10 as the spec states it: a line whose command name is not a built-in,
\* an alias or an intent prefix returns success = false with an error that
\* names the rejected command, and leaves the file system and
\* current_directory unchanged.
C10_UnknownNameRejected ==
    [][\A name \in {CommandName(last'.command)} : UnknownName(name) => Rejects(name)]_vars

\* C10: a line that does not begin with the characters of an alias and whose
\* command name is not a built-in, an alias or an intent prefix returns
\* success = false with an error that names the rejected command in lower
\* case, and leaves the file system and current_directory unchanged.
C10_UnknownCommandRejected ==
    [][\A name \in {CommandName(last'.command)} :
           (/\ UnknownName(name)
            /\ \A a \in AliasNames : ~StartsWith(last'.command.text, a)) =>
               Rejects(name)]_vars

\* the line "FOO bar" was refused under the name foo
C10_Witness ==
    /\ last.command = Str("FOO bar")
    /\ last.handler = "not_allowed"
    /\ ~result.success
    /\ Contains(result.error, "'foo'")

-----------------------------------------------------------------------------
(* Vocabulary of the properties about one handler *)

\* the words of a request's line
LineParts(command) == IF command.isstr THEN SplitWs(command.text) ELSE <<>>

\* the request is a typed call of the built-in `name`
IsCall(command, name) ==
    Bind(LineParts(command), LAMBDA parts : Len(parts) > 0 /\ Lower(parts[1]) = name)

\* the arguments of a typed call
ArgsOf(command) == Tail(LineParts(command))

\* the per-target messages of the step that open with `prefix`
ErrorsFor(errors, prefix) == {i \in DOMAIN errors : StartsWith(errors[i], prefix)}

-----------------------------------------------------------------------------
(* rm of a missing target *)

\* C11: rm of a target that does not exist records, without -f or -rf, the
\* error 'rm: <name>: No such file or directory' for it and fails when it is
\* the only target; with -f or -rf the missing target produces no error, so
\* that `rm -f <missing>` succeeds with an empty error.
C11_RmMissingTarget ==
    [][IsCall(last'.command, "rm") =>
        \A args \in {ArgsOf(last'.command)} :
        \A targets \in {NonFlags(args)} :
        \A force \in {"-f" \in Range(args) \/ "-rf" \in Range(args)} :
        \A i \in DOMAIN targets :
            ~exists(fs, _safe_path(current_directory, targets[i])) =>
                IF force
                THEN /\ ErrorsFor(last'.errors, "rm: " \o targets[i] \o ":") = {}
                     /\ Len(targets) = 1 => result'.success /\ result'.error = ""
                ELSE /\ \E e \in Range(last'.errors) :
                            e = "rm: " \o targets[i] \o ": No such file or directory"
                     /\ Len(targets) = 1 => ~result'.success]_vars

-----------------------------------------------------------------------------
(* mkdir on an existing target, and mkdir -p *)

\* the entries of f on the way from "/" down to the path, the path included
OnTheWay(f, path) == {q \in DOMAIN f : Beneath(normpath(path), q)}

\* the i-th target resolves to a path an earlier target of the same call
\* resolved to
NamedEarlier(cwd, targets, i) ==
    \E j \in 1..(i - 1) : _safe_path(cwd, targets[j]) = _safe_path(cwd, targets[i])

\* a step of mkdir: Present(f, path) says when a -p target counts as
\* already existing
C12_MkdirStep(Present(_, _)) ==
    IsCall(last'.command, "mkdir") =>
        \A args \in {ArgsOf(last'.command)} :
        \A targets \in {NonFlags(args)} :
        \A recursive \in {"-p" \in Range(args)} :
            \* what existed is left as it was
            /\ \A q \in DOMAIN fs : q \in DOMAIN fs' /\ fs'[q] = fs[q]
            \* what is new is a directory on the way to a target
            /\ \A q \in DOMAIN fs' \ DOMAIN fs :
                   /\ fs'[q] = DirNode
                   /\ \E i \in DOMAIN targets :
                          Beneath(normpath(_safe_path(current_directory, targets[i])), q)
            /\ \A i \in DOMAIN targets :
               \A path \in {_safe_path(current_directory, targets[i])} :
               \A mine \in {ErrorsFor(last'.errors, "mkdir: " \o targets[i] \o ":")} :
                   IF recursive
                   THEN /\ Present(fs, path) =>
                           /\ mine = {}
                           /\ Len(targets) = 1 =>
                                  result'.success /\ result'.error = "" /\ fs' = fs
                        /\ (\A q \in OnTheWay(fs, path) : fs[q].type = "dir") =>
                           /\ mine = {}
                           /\ isdir(fs', path)
                        \* a second run of a run that succeeded changes nothing
                        /\ result'.success =>
                           \A again \in {_mkdir(fs', current_directory', args)} :
                               again.success /\ again.error = "" /\ again.fs = fs'
                   ELSE /\ (exists(fs, path) \/ NamedEarlier(current_directory, targets, i)) =>
                           /\ \E e \in Range(last'.errors) :
                                  e = "mkdir: " \o targets[i] \o ": File exists"
                           /\ Len(targets) = 1 => ~result'.success
                        /\ (/\ ~exists(fs, path)
                            /\ isdir(fs, ParentOf(normpath(path)))
                            /\ \A j \in DOMAIN targets : j # i => targets[j] # targets[i]) =>
                           /\ mine = {}
                           /\ isdir(fs', path)

\* C12 as the spec states it: mkdir -p succeeds, with an empty error and no
\* change, on any target that already exists
C12_PTargetExists == [][C12_MkdirStep(exists)]_vars

\* C12: mkdir without -p on a target that already exists reports 'File
\* exists' for that target only, fails when it is the only target and leaves
\* the existing entry unchanged; mkdir -p creates all missing intermediate
\* directories and, on a target that already exists as a directory, succeeds
\* with an empty error and changes nothing (running it twice equals running
\* it once).
C12_MkdirExisting == [][C12_MkdirStep(isdir)]_vars

\* mkdir -p a/b run a second time
C12_Witness ==
    /\ last.command = Str("mkdir -p a/b")
    /\ ~last.recorded
    /\ result.success
    /\ isdir(fs, base_directory \o "/a/b")

-----------------------------------------------------------------------------
(* pwd *)

\* the relative multi-segment paths of plain names of the sessions of SpecPwd
PlainPaths == {"a/b/c", "d/e"}

\* what pwd printed is the virtual path of the current directory
C13_VirtualPath ==
    last.handler = "_pwd" =>
        /\ result.success
        /\ result.error = ""
        /\ \A cwd \in {normpath(current_directory)} :
               IF cwd = base_directory THEN result.output = "/workspace"
               ELSE IF Beneath(cwd, base_directory)
               THEN result.output = "/workspace/" \o Slice(cwd, Len(base_directory) + 2)
               ELSE result.output = "/workspace/" \o relpath(cwd, base_directory)

\* mkdir -p p, cd p, pwd from a fresh session succeed in turn (a step that
\* recorded its line is the first run of that line)
C13_FreshSession ==
    \A p \in PlainPaths :
        /\ (command_history = <<"mkdir -p " \o p>> /\ last.command = Str("mkdir -p " \o p) /\ last.recorded) =>
               result.success /\ isdir(fs, base_directory \o "/" \o p)
        /\ (command_history = <<"mkdir -p " \o p, "cd " \o p>> /\ last.command = Str("cd " \o p) /\ last.recorded) =>
               result.success /\ current_directory = base_directory \o "/" \o p
        /\ (command_history = <<"mkdir -p " \o p, "cd " \o p, "pwd">> /\ last.command = Str("pwd") /\ last.recorded) =>
               result.success /\ result.output = "/workspace/" \o p

\* C13: pwd outputs exactly /workspace when the current directory is the
\* root and otherwise /workspace/ followed by the current directory's path
\* relative to the root; so from a fresh session, for a relative
\* multi-segment path p of plain names, `mkdir -p p`, `cd p`, `pwd` succeed in
\* turn and pwd yields /workspace/p.
C13_Pwd == C13_VirtualPath /\ C13_FreshSession

\* pwd at the end of mkdir -p a/b/c, cd a/b/c, pwd
C13_Witness ==
    /\ command_history = <<"mkdir -p a/b/c", "cd a/b/c", "pwd">>
    /\ last.handler = "_pwd"
    /\ result.output = "/workspace/a/b/c"

-----------------------------------------------------------------------------
(* Intent phrases *)

\* the lower-case words of the folder phrases of SpecIntent
Words == {"demo", "named"}

\* the names a plain `ls` run after the step prints
ListedAfter ==
    Range(SplitWs(execute_command(fs', current_directory', command_history', Str("ls")).output))

\* a step of `nl: create a folder called w` does what `mkdir w` does from
\* the same state; Listed(w) is what the claim says of the following ls
C14_FolderStep(Listed(_)) ==
    \A w \in Words :
        last'.command = Str("nl: create a folder called " \o w) =>
            /\ \A typed \in {execute_command(fs, current_directory, command_history,
                                             Str("mkdir " \o w))} :
                   /\ result' = Emitted(typed)
                   /\ fs' = typed.fs
                   /\ current_directory' = typed.cwd
            /\ Listed(w)

C14_AlwaysListed(w) == (w \o "/") \in ListedAfter

C14_ListedOnSuccess(w) == result'.success => (w \o "/") \in ListedAfter

\* C14 as the spec states it: from any state the following ls lists w/
C14_FolderAlwaysListed == [][C14_FolderStep(C14_AlwaysListed)]_vars

\* C14: for a lower-case word w, executing `nl: create a folder called w`
\* from any state yields the same CommandResult, the same filesystem and the
\* same current directory as executing `mkdir w` from that state, and, when
\* that result is a success, a following `ls` of the current directory lists
\* w/.
C14_FolderPhrase == [][C14_FolderStep(C14_ListedOnSuccess)]_vars

\* the phrase made the folder
C14_Witness ==
    /\ last.command = Str("nl: create a folder called demo")
    /\ last.handler = "_mkdir"
    /\ result.success
    /\ isdir(fs, base_directory \o "/demo")

\* the request is an intent phrase
IsPhrase(command) ==
    Bind(LineParts(command), LAMBDA parts :
        Len(parts) > 0 /\ (StartsWith(Lower(parts[1]), "nl:") \/ StartsWith(Lower(parts[1]), "natural:")))

\* the phrase as the patterns see it
PhraseOf(command) ==
    Lower(Strip(Slice(command.text,
                      IF StartsWith(Lower(LineParts(command)[1]), "nl:") THEN 4 ELSE 9)))

\* the nine intents in their order
Intents ==
    <<"folder named", "make folder", "move", "copy", "delete", "file named",
      "show files", "go to", "system info">>

\* the phrase s matches the intent
IntentMatches(intent, s) ==
    CASE intent = "folder named" -> CreateNamed(s, FolderKinds, TRUE) # ""
      [] intent = "make folder" -> MakeFolder(s) # ""
      [] intent = "move" -> VerbTo(s, "move") # <<>>
      [] intent = "copy" -> VerbTo(s, "copy") # <<>>
      [] intent = "delete" -> DeleteName(s) # ""
      [] intent = "file named" -> CreateNamed(s, {"file"}, FALSE) # ""
      [] intent = "show files" -> Contains(s, "show") /\ Contains(s, "file")
      [] intent = "go to" -> GoTo(s) # ""
      [] intent = "system info" ->
            \E word \in {"system", "info", "stats", "performance"} : Contains(s, word)

\* the one operation of the intent, on the names the phrase s gives
IntentPerforms(intent, f, cwd, s) ==
    CASE intent = "folder named" -> _mkdir(f, cwd, <<CreateNamed(s, FolderKinds, TRUE)>>)
      [] intent = "make folder" -> _mkdir(f, cwd, <<MakeFolder(s)>>)
      [] intent = "move" -> _mv(f, cwd, VerbTo(s, "move"))
      [] intent = "copy" -> _cp(f, cwd, VerbTo(s, "copy"))
      [] intent = "delete" -> _rm(f, cwd, <<DeleteName(s)>>)
      [] intent = "file named" -> _touch(f, cwd, <<CreateNamed(s, {"file"}, FALSE)>>)
      [] intent = "show files" ->
            IF Contains(s, "python") THEN ShowPython(f, cwd) ELSE _ls(f, cwd, <<>>)
      [] intent = "go to" -> _cd(f, cwd, <<GoTo(s)>>)
      [] intent = "system info" -> _system_info(f, cwd)

\* the intents the phrase matches, by their place in the order
Matching(s) == {i \in DOMAIN Intents : IntentMatches(Intents[i], s)}

\* C15: an intent phrase is tested against the intents in the fixed order
\* folder-create (called/named), folder-create/make, move, copy,
\* delete/remove, file-create, show-files, go/navigate, system-info, and
\* exactly one operation, that of the first intent that matches, is
\* performed: a phrase that matches several intents never triggers a later
\* one.
C15_FirstMatchWins ==
    [][IsPhrase(last'.command) =>
        \A s \in {PhraseOf(last'.command)} :
        \A matching \in {Matching(s)} :
            matching # {} =>
                \A done \in {IntentPerforms(Intents[Min(matching)], fs, current_directory, s)} :
                    /\ fs' = done.fs
                    /\ current_directory' = done.cwd
                    /\ result' = [output |-> done.output, error |-> done.error,
                                  success |-> done.success]]_vars

\* a phrase that matches move and delete moved, and deleted nothing
C15_Witness ==
    /\ last.command = Str("nl: move demo to b and delete b")
    /\ Cardinality(Matching("move demo to b and delete b")) > 1
    /\ last.handler = "_mv"
    /\ result.success
    /\ exists(fs, base_directory \o "/b")

\* C16: an intent phrase that matches none of the nine intents returns
\* success = false with the fixed "I didn't understand the command" message
\* and usage hints, and leaves the filesystem and current_directory unchanged.
C16_NoMatch ==
    [][IsPhrase(last'.command) =>
        \A s \in {PhraseOf(last'.command)} :
            Matching(s) = {} =>
                /\ ~result'.success
                /\ StartsWith(result'.output, "I didn't understand the command: '" \o s \o "'")
                /\ Contains(result'.output, "Try commands like:")
                /\ result'.error = ""
                /\ fs' = fs
                /\ current_directory' = current_directory]_vars

\* a phrase no intent matches was answered
C16_Witness ==
    /\ last.command = Str("nl: hello world")
    /\ last.handler = "not_understood"
    /\ ~result.success

-----------------------------------------------------------------------------
(* cat and touch *)

\* the target names a regular file
Readable(f, cwd, target) == isfile(f, _safe_path(cwd, target))

\* the contents of the readable targets, one after the other
RECURSIVE ContentsOf(_, _, _)
ContentsOf(f, cwd, targets) ==
    IF Len(targets) = 0 THEN ""
    ELSE (IF Readable(f, cwd, Head(targets))
          THEN f[namei(f, _safe_path(cwd, Head(targets))).path].data
          ELSE "") \o ContentsOf(f, cwd, Tail(targets))

\* C17: cat with targets t1..tn returns as output the contents of the
\* readable targets concatenated in argument order with no separator,
\* returns one error message per failing target (missing file, directory)
\* joined by newlines, and reports success = true exactly when no target
\* produced an error.
C17_CatResult ==
    (IsCall(last.command, "cat") /\ Len(ArgsOf(last.command)) > 0) =>
        \A targets \in {ArgsOf(last.command)} :
        \A failing \in {SelectSeq(targets,
                                  LAMBDA t : ~Readable(fs, current_directory, t))} :
            /\ result.output = ContentsOf(fs, current_directory, targets)
            /\ Len(last.errors) = Len(failing)
            /\ \A i \in DOMAIN failing :
                   /\ StartsWith(last.errors[i], "cat: " \o failing[i] \o ": ")
                   /\ isdir(fs, _safe_path(current_directory, failing[i])) =>
                          last.errors[i] = "cat: " \o failing[i] \o ": Is a directory"
            /\ result.error = Join(last.errors, "\n")
            /\ result.success <=> Len(failing) = 0

\* two files were printed around a missing name and a directory
C17_Witness ==
    /\ last.command = Str("cat y.txt nofile x.txt dup")
    /\ result.output = "cdab"
    /\ result.error = "cat: nofile: No such file or directory\ncat: dup: Is a directory"
    /\ ~result.success

\* a step of touch; Creatable(f, path) says which missing names the claim
\* is about
C18_TouchStep(Creatable(_, _)) ==
    IsCall(last'.command, "touch") =>
        \A targets \in {ArgsOf(last'.command)} :
        \A i \in DOMAIN targets :
        \A path \in {_safe_path(current_directory, targets[i])} :
            /\ (~exists(fs, path) /\ Creatable(fs, path)) =>
                   /\ isfile(fs', path)
                   /\ fs'[namei(fs', path).path] = FileNode("")
                   /\ \A read \in {execute_command(fs', current_directory', command_history',
                                                   Str("cat " \o targets[i]))} :
                          read.output = "" /\ read.error = "" /\ read.success
            /\ isfile(fs, path) =>
                   /\ isfile(fs', path)
                   /\ fs'[namei(fs', path).path] = fs[namei(fs, path).path]

C18_AnyName(f, path) == TRUE

C18_InADirectory(f, path) == isdir(f, ParentOf(normpath(path)))

\* C18 as the spec states it: touch on any name that does not exist
C18_TouchCreatesAnyName == [][C18_TouchStep(C18_AnyName)]_vars

\* C18: touch on a name that does not exist, in a directory that does,
\* creates an empty regular file, so that a following cat of that name
\* returns empty output with success = true; touch on a file that already
\* exists leaves its content unchanged.
C18_TouchCreates == [][C18_TouchStep(C18_InADirectory)]_vars

\* touch made a new empty file
C18_Witness ==
    /\ last.command = Str("touch new")
    /\ last.recorded
    /\ result.success
    /\ isfile(fs, base_directory \o "/new")
    /\ fs[base_directory \o "/new"].data = ""

-----------------------------------------------------------------------------
(* Completion *)

\* the names execute_command accepts, in the order it tests them, and the
\* two intent prefixes
AcceptedNames ==
    <<"pwd", "ls", "cd", "mkdir", "rm", "rmdir", "cp", "mv", "cat", "touch", "echo",
      "history", "clear", "sysinfo", "system", "ps", "help", "nl:", "natural:">>

\* the last request was a completion request for a line of exactly one token
OneToken ==
    /\ last.handler = "get_completions"
    /\ last.command.isstr
    /\ Len(SplitWs(last.command.text)) = 1

\* C19: for a partial line of exactly one token t, get_completions returns
\* exactly the names, among every command name the dispatcher accepts and
\* the two intent prefixes nl: and natural:, that start with the lower-cased
\* t, in declaration order; in particular t = "m" yields a list containing
\* mkdir.
C19_CompletesEveryName ==
    OneToken =>
        \A t \in {Lower(SplitWs(last.command.text)[1])} :
            /\ completions = SelectSeq(AcceptedNames, LAMBDA name : StartsWith(name, t))
            /\ t = "m" => \E i \in DOMAIN completions : completions[i] = "mkdir"

\* C20: for every partial line and every filesystem state, get_completions
\* returns at most 10 entries, in the command-name branch as well as in the
\* path branch.
C20_AtMostTen ==
    last.handler = "get_completions" => Len(completions) <= 10

\* a directory of more than ten entries was completed to ten
C20_Witness ==
    /\ last.handler = "get_completions"
    /\ last.command = Str("cat ./")
    /\ Cardinality(listdir(fs, current_directory)) > 10
    /\ Len(completions) = 10

-----------------------------------------------------------------------------
(* The history listing *)

\* i right-aligned to four columns
Column4(i) ==
    IF i < 10 THEN "   " \o ToString(i)
    ELSE IF i < 100 THEN "  " \o ToString(i)
    ELSE IF i < 1000 THEN " " \o ToString(i)
    ELSE ToString(i)

\* C21: the history command renders the last min(50, length) history
\* entries in submission order, one per row, numbered 1, 2, 3, ... from the
\* oldest rendered entry (not by position in the log), each row being the
\* index right-aligned to 4 columns, two spaces, then the command text.
C21_HistoryRows ==
    last.handler = "_history" =>
        \A n \in {Len(command_history)} :
        \A shown \in {IF n < 50 THEN n ELSE 50} :
        \A rows \in {Split(result.output, "\n")} :
            /\ result.success
            /\ result.error = ""
            /\ Len(rows) = shown
            /\ \A i \in 1..shown :
                   rows[i] = Column4(i) \o "  " \o command_history[n - shown + i]

\* a log of more than fifty entries was listed
C21_Witness ==
    /\ last.handler = "_history"
    /\ Len(command_history) > 50
    /\ Len(Split(result.output, "\n")) = 50
    /\ StartsWith(result.output, "   1  ")

-----------------------------------------------------------------------------
(* Alias expansion *)

\* the aliases the raw text begins with
LeadingAliases(text) ==
    {a \in {<<"ll", "ls -la">>, <<"la", "ls -a">>, <<"clear", "clear">>} :
        StartsWith(text, a[1])}

\* the raw text with its leading alias replaced, once
RewrittenOnce(text) ==
    IF LeadingAliases(text) = {} THEN text
    ELSE Bind(CHOOSE a \in LeadingAliases(text) : TRUE, LAMBDA a :
             a[2] \o Slice(text, Len(a[1]) + 1))

\* C22: alias expansion rewrites a raw line at most once: when the raw text
\* begins with the characters of an alias (ll, la, clear) only that leading
\* occurrence is replaced and no second alias is applied to the expanded
\* text; the match is a prefix match on the raw string, so `ll` runs as
\* `ls -la`, `la` as `ls -a`, and `llama` is rewritten too and runs as ls.
C22_AliasOnce ==
    [][\A typed \in {last'.command} :
           typed.isstr =>
               /\ Cardinality(LeadingAliases(typed.text)) <= 1
               /\ \A d \in {Dispatch(fs, current_directory, command_history',
                                      RewrittenOnce(typed.text))} :
                      /\ last'.handler = d.handler
                      /\ fs' = d.fs
                      /\ current_directory' = d.cwd
                      /\ result'.output = d.output
                      /\ result'.error = d.error
                      /\ result'.success = d.success
               /\ typed.text = "ll" => RewrittenOnce(typed.text) = "ls -la"
               /\ typed.text = "la" => RewrittenOnce(typed.text) = "ls -a"
               /\ LeadingAliases(typed.text) \cap {<<"ll", "ls -la">>, <<"la", "ls -a">>} # {}
                      => last'.handler = "_ls"
    ]_vars

\* llama was typed and ran as ls
C22_Witness ==
    /\ last.command = Str("llama")
    /\ last.handler = "_ls"

-----------------------------------------------------------------------------
(* Moving and copying *)

\* what the path holds: the entry and everything beneath it, each with its
\* place relative to the path; nothing when the path names no entry
TreeAt(f, path) ==
    IF ~exists(f, path) THEN {}
    ELSE Bind(namei(f, path).path, LAMBDA canon :
             {<<Slice(q, Len(canon) + 1), f[q]>> : q \in {q \in DOMAIN f : Beneath(q, canon)}})

\* where a source lands: under the destination when that was a directory
\* before the command, else at the destination itself
LandsAt(f, source_path, dest_path) ==
    IF isdir(f, dest_path) THEN join(dest_path, basename(source_path)) ELSE dest_path

\* C23: after mv reports no error for a source s with destination d, s no
\* longer exists at its original path and its former content exists at d,
\* or at d/basename(s) when d was an existing directory; when mv reports an
\* error for s, s is as it was.
C23_Moved ==
    [][\A typed \in {last'.command} :
           IsCall(typed, "mv") /\ last'.handler = "_mv" /\ Len(ArgsOf(typed)) >= 2 =>
               \A args \in {ArgsOf(typed)} :
               \A dest_path \in {_safe_path(current_directory, args[Len(args)])} :
               \A i \in 1..(Len(args) - 1) :
               \A source_path \in {_safe_path(current_directory, args[i])} :
                   IF ErrorsFor(last'.errors, "mv: " \o args[i] \o ":") = {}
                   THEN /\ ~exists(fs', source_path)
                        /\ TreeAt(fs, source_path) # {}
                        /\ TreeAt(fs', LandsAt(fs, source_path, dest_path))
                               = TreeAt(fs, source_path)
                   ELSE TreeAt(fs', source_path) = TreeAt(fs, source_path)
    ]_vars

\* C24: cp of a directory source without -r reports an error for that
\* source and copies nothing of it; cp of a file, or of a directory with
\* -r, into an existing directory destination creates the copy at
\* destination/basename(source), and into a non-existing destination
\* creates the copy at the destination path itself; in every case the
\* source is afterwards as it was.
C24_Copied ==
    [][\A typed \in {last'.command} :
           IsCall(typed, "cp") /\ last'.handler = "_cp" /\ Len(ArgsOf(typed)) >= 2 =>
               \A args \in {ArgsOf(typed)} :
               \A recursive \in {"-r" \in Range(args)} :
               \A dest_path \in {_safe_path(current_directory, args[Len(args)])} :
               \A i \in 1..(Len(args) - 1) :
               \A source_path \in {_safe_path(current_directory, args[i])} :
                   ~StartsWith(args[i], "-") /\ exists(fs, source_path) =>
                       /\ isdir(fs, source_path) /\ ~recursive =>
                              /\ ErrorsFor(last'.errors, "cp: " \o args[i] \o ":") # {}
                              /\ Len(NonFlags(args)) = 2 => fs' = fs
                       /\ (isfile(fs, source_path) \/ recursive)
                              /\ (isdir(fs, dest_path) \/ ~exists(fs, dest_path)) =>
                              TreeAt(fs', LandsAt(fs, source_path, dest_path))
                                  = TreeAt(fs, source_path)
                       /\ TreeAt(fs', source_path) = TreeAt(fs, source_path)
    ]_vars

-----------------------------------------------------------------------------
(* Removing directories *)

\* the file system when the loop of rm reaches its i-th target
RmReaches(f, cwd, args, i) ==
    RmLoop(f, cwd, SubSeq(NonFlags(args), 1, i - 1),
           {"-r", "-rf"} \cap Range(args) # {}, {"-f", "-rf"} \cap Range(args) # {}, <<>>).fs

\* C25: rm without -r or -rf on a target that is a directory reports
\* 'is a directory' for that target and leaves the directory and everything
\* beneath it in place; with -r or -rf the directory and its whole subtree
\* are removed.
C25_RmDirectory ==
    [][\A typed \in {last'.command} :
           IsCall(typed, "rm") /\ last'.handler = "_rm" /\ Len(NonFlags(ArgsOf(typed))) > 0 =>
               \A args \in {ArgsOf(typed)} :
               \A files \in {NonFlags(args)} :
                   /\ RmReaches(fs, current_directory, args, Len(files) + 1) = fs'
                   /\ \A i \in DOMAIN files :
                      \A before \in {RmReaches(fs, current_directory, args, i)} :
                      \A after \in {RmReaches(fs, current_directory, args, i + 1)} :
                      \A file_path \in {_safe_path(current_directory, files[i])} :
                          isdir(before, file_path) =>
                              \A directory \in {namei(before, file_path).path} :
                                  IF {"-r", "-rf"} \cap Range(args) # {}
                                  THEN {q \in DOMAIN after : Beneath(q, directory)} = {}
                                  ELSE /\ ErrorsFor(last'.errors,
                                                     "rm: " \o files[i] \o ": is a directory") # {}
                                       /\ TreeAt(after, directory) = TreeAt(before, directory)
    ]_vars

\* the file system when the loop of rmdir reaches its i-th target
RmdirReaches(f, cwd, args, i) == RmdirLoop(f, cwd, SubSeq(args, 1, i - 1), <<>>).fs

\* the path names a directory that holds nothing
EmptyDirectory(f, path) == isdir(f, path) /\ listdir(f, namei(f, path).path) = {}

\* C26: rmdir removes a target only when it is an empty directory; a
\* non-empty directory, a regular file or a missing name yields a
\* per-target error and is left exactly as it was.
C26_RmdirOnlyEmpty ==
    [][\A typed \in {last'.command} :
           IsCall(typed, "rmdir") /\ last'.handler = "_rmdir" /\ Len(ArgsOf(typed)) > 0 =>
               \A args \in {ArgsOf(typed)} :
                   /\ RmdirReaches(fs, current_directory, args, Len(args) + 1) = fs'
                   /\ \A i \in DOMAIN args :
                      \A before \in {RmdirReaches(fs, current_directory, args, i)} :
                      \A after \in {RmdirReaches(fs, current_directory, args, i + 1)} :
                      \A dir_path \in {_safe_path(current_directory, args[i])} :
                          IF EmptyDirectory(before, dir_path)
                          THEN \/ after = before
                               \/ after = Without(before, {namei(before, dir_path).path})
                          ELSE /\ ErrorsFor(last'.errors, "rmdir: " \o args[i] \o ":") # {}
                               /\ after = before
                               /\ ~result'.success
    ]_vars

\* rmdir removed two empty directories and refused the file named between them
C26_Witness ==
    /\ last.command = Str("rmdir a/b x.txt a")
    /\ Len(last.errors) = 1
    /\ ~exists(fs, base_directory \o "/a")
    /\ isfile(fs, base_directory \o "/x.txt")

-----------------------------------------------------------------------------
(* Output and error of one result *)

\* C27, as stated: no result has content in both output and error, for
\* every command and every argument list.
C27_NeverBoth == result.output = "" \/ result.error = ""

\* cat printed a target that holds something and failed on another
CatPrintsAndFails(f, cwd, typed) ==
    /\ IsCall(typed, "cat")
    /\ \E t \in Range(ArgsOf(typed)) : Readable(f, cwd, t) /\ ContentsOf(f, cwd, <<t>>) # ""
    /\ \E t \in Range(ArgsOf(typed)) : ~Readable(f, cwd, t)

\* C27, amended: a result has content in both output and error only when
\* it is the result of cat given a readable target that is not empty and a
\* target that fails, and then it always has; every other command and
\* argument list leaves at least one of the two fields empty.
C27_BothOnlyFromCat ==
    [][(result'.output # "" /\ result'.error # "")
           <=> CatPrintsAndFails(fs, current_directory, last'.command)
    ]_vars

\* cat answered with contents and with an error message
C27_Witness ==
    /\ last.handler = "_cat"
    /\ result.output = "abcd"
    /\ result.error = "cat: zz: No such file or directory"

-----------------------------------------------------------------------------
(* _safe_path against its reference *)

\* the reference resolution of p from the current directory cwd
ReferencePath(cwd, p) ==
    IF p = "" THEN cwd
    ELSE IF isabs(p)
    THEN (IF Beneath(normpath(p), base_directory) THEN normpath(p)
          ELSE join(base_directory, basename(p)))
    ELSE (IF Beneath(normpath(join(cwd, p)), base_directory) THEN normpath(join(cwd, p))
          ELSE base_directory)

\* C28: _safe_path(p) equals the reference algorithm for every input: the
\* current directory when p is empty; for an absolute p, the normalized p
\* when it lies under the root and otherwise root/basename(p); for a
\* relative p, the normalized join of the current directory and p when it
\* lies under the root and otherwise the root itself.
C28_SafePathReference ==
    last.handler = "_safe_path" =>
        result.output = ReferencePath(current_directory, last.command.text)

-----------------------------------------------------------------------------
(* The root and the current directory stay in place *)

\* C29: the workspace root directory exists in every reachable state: no
\* command, rm -r, rmdir and mv given arguments that resolve or clamp to
\* the root itself included, removes or renames the root.
C29_RootExists == isdir(fs, base_directory)

\* C30: in every reachable state current_directory names an existing
\* directory: no rm -r, rmdir or mv removes or moves away the current
\* directory or one of its ancestors while the session is positioned in it.
C30_CwdExists == isdir(fs, current_directory)

-----------------------------------------------------------------------------
(* What a command leaves alone *)

\* the built-ins that only report
Reporting == {"pwd", "ls", "cat", "echo", "history", "clear", "help", "ps", "sysinfo", "system"}

\* the built-ins that change files
Filing == {"mkdir", "rm", "rmdir", "cp", "mv", "touch"}

\* C31: only cd (typed, or reached through the go/navigate intent) changes
\* current_directory: pwd, ls, cat, echo, history, clear, help, ps and
\* sysinfo/system leave both current_directory and the file system
\* unchanged, and mkdir, rm, rmdir, cp, mv and touch leave the value of
\* current_directory unchanged.
C31_OnlyCdMoves ==
    [][\A parts \in {LineParts(last'.command)} :
       \A name \in {IF Len(parts) > 0 THEN Lower(parts[1]) ELSE ""} :
           /\ current_directory' # current_directory =>
                  /\ last'.handler = "_cd"
                  /\ \/ name = "cd"
                     \/ /\ name \in {"nl:", "natural:"}
                        /\ Range(parts) \cap {"go", "navigate"} # {}
           /\ name \in Reporting =>
                  /\ current_directory' = current_directory
                  /\ fs' = fs
           /\ name \in Filing => current_directory' = current_directory
    ]_vars

\* the go intent moved the session into d
C31_Witness ==
    /\ last.command = Str("nl: go to d")
    /\ last.handler = "_cd"
    /\ current_directory = base_directory \o "/d"

\* C32: cd with no argument, from any reachable state, sets
\* current_directory to the workspace root and returns success = true with
\* empty output and error; cd p whose resolved target is an existing
\* directory sets current_directory to exactly _safe_path(p) and returns
\* success = true.
C32_CdSets ==
    [][\A typed \in {last'.command} :
           IsCall(typed, "cd") =>
               \A args \in {ArgsOf(typed)} :
                   IF Len(args) = 0
                   THEN /\ current_directory' = base_directory
                        /\ result' = [output |-> "", error |-> "", success |-> TRUE]
                   ELSE isdir(fs, _safe_path(current_directory, args[1])) =>
                            /\ current_directory' = _safe_path(current_directory, args[1])
                            /\ result'.success
    ]_vars

\* a bare cd brought the session back from d to the root
C32_Witness ==
    /\ command_history = <<"cd d", "cd">>
    /\ last.command = Str("cd")
    /\ current_directory = base_directory
    /\ result.success

\* C35: an empty or whitespace-only line returns success = true with empty
\* output and empty error and changes nothing: the history,
\* current_directory and the file system are all as before the call.
C35_BlankLine ==
    [][\A typed \in {last'.command} :
           (typed.isstr /\ \A i \in 1..Len(typed.text) : IsSpace(Char(typed.text, i))) =>
               /\ result' = [output |-> "", error |-> "", success |-> TRUE]
               /\ command_history' = command_history
               /\ current_directory' = current_directory
               /\ fs' = fs
    ]_vars

\* a whitespace-only line was answered after a command that had output
C35_Witness ==
    /\ last.command = Str("  ")
    /\ last.handler = "blank"
    /\ command_history = <<"pwd">>
    /\ result.output = ""

-----------------------------------------------------------------------------
(* What the history records *)

\* C34: every execute call whose line is not blank records the raw line
\* exactly as received, before alias expansion and whether or not the
\* command is recognised or succeeds, as the newest history entry (unless
\* it equals the current newest entry), and history entries are never
\* altered or reordered afterwards except by eviction of the oldest.
C34_RawLineRecorded ==
    [][\A typed \in {last'.command} :
       \A n \in {Len(command_history)} :
           /\ (typed.isstr /\ Strip(typed.text) # "") =>
                  /\ Len(command_history') > 0
                  /\ command_history'[Len(command_history')] = typed.text
                  /\ (n > 0 /\ command_history[n] = typed.text)
                         <=> command_history' = command_history
           /\ \/ command_history' = command_history
              \/ n < HISTORY_MAX /\ command_history' = Append(command_history, typed.text)
              \/ n = HISTORY_MAX /\ command_history' = Append(Tail(command_history), typed.text)
    ]_vars

\* the line llama, which runs as ls, took the place of the oldest entry of
\* a full history
C34_Witness ==
    /\ last.command = Str("llama")
    /\ last.handler = "_ls"
    /\ last.before = HISTORY_MAX
    /\ Len(command_history) = HISTORY_MAX
    /\ command_history[HISTORY_MAX] = "llama"
    /\ command_history[HISTORY_MAX - 1] \in {"pwd", "echo hi"}

\* C36: when history is run through execute, the invocation is recorded
\* before the listing is rendered, so the output is never empty and its
\* last numbered row is the history command line just executed.
C36_ListsItself ==
    last.handler = "_history" =>
        /\ result.output # ""
        /\ \A rows \in {Split(result.output, "\n")} :
               rows[Len(rows)] = Column4(Len(rows)) \o "  " \o last.command.text

\* history as the first command of a session lists itself alone
C36_Witness ==
    /\ last.handler = "_history"
    /\ command_history = <<"history">>
    /\ result.output = "   1  history"

-----------------------------------------------------------------------------
(* Completion requests that cannot be answered *)

\* the directory the last token of the partial line is completed in
SearchDir(cwd, partial_command) ==
    Bind(SplitWs(partial_command), LAMBDA parts :
    Bind(Split(parts[Len(parts)], "/"), LAMBDA pieces :
        IF Len(pieces) > 1
        THEN _safe_path(cwd, Join(SubSeq(pieces, 1, Len(pieces) - 1), "/"))
        ELSE cwd))

\* C37: get_completions never raises and never changes session state: a
\* path fragment whose directory part cannot be resolved or listed (and a
\* whitespace-only partial line) yields an empty list, and after any call
\* the history, current_directory and file system are unchanged.
C37_CompletionsHarmless ==
    [][last'.handler = "get_completions" =>
           /\ ~last'.escaped
           /\ command_history' = command_history
           /\ current_directory' = current_directory
           /\ fs' = fs
           /\ \A typed \in {last'.command} :
                  typed.isstr =>
                      /\ (typed.text # "" /\ Strip(typed.text) = "") => completions' = <<>>
                      /\ (/\ Len(SplitWs(typed.text)) > 1
                          /\ ~isdir(fs, SearchDir(current_directory, typed.text)))
                             => completions' = <<>>
    ]_vars

\* a completion was asked for beneath a regular file
C37_Witness ==
    /\ last.handler = "get_completions"
    /\ last.command = Str("cat a1/x")
    /\ isfile(fs, SearchDir(current_directory, "cat a1/x"))
    /\ completions = <<>>

\* ---------------------------------------------------------------------
\* C38: the rows of a non-long listing
\* ---------------------------------------------------------------------

\* the names a plain ls of the working directory shows: a directory with "/"
Displayed ==
    {IF fs[Child(current_directory, x)].type = "dir" THEN x \o "/" ELSE x :
        x \in {x \in listdir(fs, current_directory) : ~StartsWith(x, ".")}}

\* the length of the longest name shown
Widest == CHOOSE w \in {Len(x) : x \in Displayed} : \A x \in Displayed : Len(x) <= w

\* a plain ls of a working directory that holds entries has just been answered
PlainListing ==
    /\ last.handler = "_ls"
    /\ last.command = Str("ls")
    /\ Displayed # {}

\* C38 as stated: every row of a non-long listing is at most 80 characters
\* wide, whatever the entry names are
C38_RowsFit ==
    PlainListing => \A rows \in {Split(result.output, "\n")} :
                        \A i \in DOMAIN rows : Len(rows[i]) <= LS_WIDTH

\* C38: a non-long listing of entries whose longest shown name has w <= 80
\* characters is laid out in cols = max(1, 80 div (w + 2)) columns of width w
\* joined by two spaces, so every row is at most cols*w + 2*(cols-1) <= 80
\* characters wide, and every row but the last exactly that
C38_RowsFitShortNames ==
    (PlainListing /\ Widest <= LS_WIDTH) =>
        \A w \in {Widest} : \A n \in {Cardinality(Displayed)} :
        \A cols \in {IF LS_WIDTH \div (w + 2) >= 1 THEN LS_WIDTH \div (w + 2) ELSE 1} :
        \A rows \in {Split(result.output, "\n")} :
            /\ cols * w + 2 * (cols - 1) <= LS_WIDTH
            /\ Len(rows) = (n + cols - 1) \div cols
            /\ \A i \in DOMAIN rows :
                   /\ Len(rows[i]) <= cols * w + 2 * (cols - 1)
                   /\ i < Len(rows) => Len(rows[i]) = cols * w + 2 * (cols - 1)

\* a listing of several full rows of more than one column
C38_Witness ==
    /\ PlainListing
    /\ Widest <= LS_WIDTH
    /\ \E rows \in {Split(result.output, "\n")} :
           /\ Len(rows) >= 2
           /\ Len(rows[1]) = 78
           /\ LS_WIDTH \div (Widest + 2) >= 2

\* ---------------------------------------------------------------------
\* C39: hidden entries in a listing
\* ---------------------------------------------------------------------

\* the arguments of the ls line last answered
LsArgs == Tail(SplitWs(last.command.text))

\* the directory that line lists: the first argument that is no flag, else
\* the working directory
LsTarget ==
    IF Len(NonFlags(LsArgs)) = 0 THEN current_directory
    ELSE Child(current_directory, NonFlags(LsArgs)[1])

\* an ls of a directory has just been answered
LsOfDirectory ==
    /\ last.handler = "_ls"
    /\ last.command.isstr
    /\ SplitWs(last.command.text)[1] = "ls"
    /\ LsTarget \in DOMAIN fs
    /\ fs[LsTarget].type = "dir"

Flagged == \E i \in DOMAIN LsArgs : LsArgs[i] \in {"-a", "-la", "-al"}

LongListing == \E i \in DOMAIN LsArgs : LsArgs[i] \in {"-l", "-la", "-al"}

\* the name a long row ends with
LastField(row) == Slice(row, RFind(row, " ", Len(row)) + 1)

\* the entries the answer lists, in order: the cells of the rows, or the
\* name at the end of every long row
Listed ==
    IF result.output = "" THEN <<>>
    ELSE IF LongListing
    THEN Bind(Split(result.output, "\n"), LAMBDA rows :
             [i \in DOMAIN rows |-> LastField(rows[i])])
    ELSE SplitWs(result.output)

NonHidden == {x \in listdir(fs, LsTarget) : ~StartsWith(x, ".")}

\* C39 as stated: a hidden entry is listed only under -a, -la or -al, and
\* without such a flag every non-hidden entry is listed exactly once, a
\* directory with "/" after its name, and nothing else is listed
C39_HiddenOnlyFlagged ==
    LsOfDirectory =>
        /\ (\E i \in DOMAIN Listed : StartsWith(Listed[i], ".")) => Flagged
        /\ ~Flagged =>
               /\ Len(Listed) = Cardinality(NonHidden)
               /\ \A x \in NonHidden :
                      Cardinality({i \in DOMAIN Listed :
                          Listed[i] = IF fs[Child(LsTarget, x)].type = "dir"
                                      THEN x \o "/" ELSE x}) = 1

\* C39: ls of a directory lists a hidden entry only when an argument is
\* exactly -a, -la or -al; without such a flag every non-hidden entry of the
\* target is listed exactly once, a directory with "/" after its name in the
\* non-long format and by its bare name in the long one, and no hidden entry
C39_HiddenOnlyFlaggedSuffixShort ==
    LsOfDirectory =>
        /\ (\E i \in DOMAIN Listed : StartsWith(Listed[i], ".")) => Flagged
        /\ ~Flagged =>
               /\ Len(Listed) = Cardinality(NonHidden)
               /\ \A x \in NonHidden :
                      Cardinality({i \in DOMAIN Listed :
                          Listed[i] = IF fs[Child(LsTarget, x)].type = "dir" /\ ~LongListing
                                      THEN x \o "/" ELSE x}) = 1

\* a flag that merely holds the letters of -la did not show the hidden
\* entries of a directory that has some, next to a subdirectory
C39_Witness ==
    /\ LsOfDirectory
    /\ last.command = Str("ls -lart")
    /\ \E x \in listdir(fs, LsTarget) : StartsWith(x, ".")
    /\ \E i \in DOMAIN Listed : Listed[i] = "d/"
    /\ result.success

\* ---------------------------------------------------------------------
\* C33: the history under concurrent handlers
\* ---------------------------------------------------------------------

\* C33: with execute calls and history reads on concurrent handler threads,
\* no history_result carries more than 1000 entries, and once every execute
\* call has returned the log holds at most 1000
C33_SnapshotBounded ==
    /\ Len(history_result) <= HISTORY_MAX
    /\ (\A t \in Clients : threads[t].pc = "idle") => Len(command_history) <= HISTORY_MAX

====
